---- MODULE Spec2Model ----
(***************************************************************************)
(* Model of the CAR execution gate of the cognition-to-value protocol:     *)
(* compute -> validate -> attest -> route, the routing halt flag, and the  *)
(* structural check of hybrid (classical + post-quantum) attestations;    *)
(* and of the modules around it: the attestor registry, the key-rotation   *)
(* planner, the LEAR adapt / reinforce loop, settlement tracking and the   *)
(* PIE envelope layer.  Each part has a specification of its own over the  *)
(* shared variables.                                                       *)
(*                                                                         *)
(* Decimal strings are kept as strings; parseFloat is a table lookup that  *)
(* yields NaN for every string that is not a numeral.  Numbers are records *)
(* [nan, v] so that the IEEE rule "every comparison with NaN is false" is  *)
(* part of the model.  Confidence values are kept in hundredths.           *)
(***************************************************************************)
EXTENDS Integers, Sequences, FiniteSets, TLC

VARIABLES
    now,              \* Date.now(), milliseconds
    ticks,            \* number of clock advances so far (bounded)
    routingHalted,    \* route.ts: let routingHalted
    haltReason,       \* route.ts: let haltReason
    pc,               \* position of the caller in the pipeline
    envelope,         \* PaymentIntentEnvelope handed to the gate
    ledgerState,      \* LedgerState
    sourceBalance,    \* sourceBalance argument of validate
    config,           \* CARValidationConfig
    preResult,        \* result of preValidate, or None
    computeResult,    \* ComputeResult, or None
    validationResult, \* ValidationResult, or None
    attestResult,     \* AttestResult, Null (attest returned null), or None
    verifyResult,     \* result of verifyAttest, or None
    pending,          \* what the awaited backend call settles with
    routeResult,      \* RouteResult of the last route call, or None
    calls,            \* backend dispatches made for the current envelope
    routeCalls,       \* number of route calls made for the current envelope
    carAttestation,   \* CarAttestation handed to isValidAttestationStructure
    structResult,     \* its result, or None
    requestedPolicy,  \* cryptoPolicy handed to createAttestor, or None
    attestor,         \* what createAttestor returned or threw, or None
    attestInput,      \* AttestInput handed to the attestor, or None
    attestOutput,     \* AttestOutput of the attestor, or None
    secondComputeResult, \* result of a second compute call, or None
    secondAttestResult,  \* result of a second attest call, or None
    adapter,          \* RotationOptimizer.adapter
    planPc,           \* position of the buildPlan call: idle, solving, done
    planNodes,        \* nodes argument of buildPlan, or None
    planConstraints,  \* constraints argument of buildPlan, or None
    planResult,       \* the plan buildPlan returned or the error it threw
    solverCalls,      \* the solve calls made: adapter id, nodes, constraints
    controlHistory,   \* history of the operator's haltRouting / resumeRouting calls
    auditLog,         \* audit entries emitted by route, haltRouting, resumeRouting
    haltReads,        \* what the isRoutingHalted calls returned, and when
    learParams,       \* the caller's current AdaptationParams[]
    learPc,           \* position of the learning loop: idle, adapted
    learAdaptation,   \* the Adaptation adapt returned, or None
    learResult,       \* the last ReinforcementResult, or None
    learBefore,       \* the parameters handed to the last reinforce call, and
                      \* whether its adaptation came from adapt on them
    learRounds,       \* number of reinforce calls made (bounded)
    settlement,       \* the Settlement the caller tracks, or None
    settleCalls,      \* number of settlement updates made (bounded)
    pieEnvelope,      \* envelope handed to the PIE envelope layer
    pieValidation,    \* validateEnvelope's result and the time of the call
    pieRetry          \* canRetry's result and the time of the call

gateVars == <<now, ticks, routingHalted, haltReason, pc, envelope, ledgerState,
              sourceBalance, config, preResult, computeResult, validationResult,
              attestResult, verifyResult, pending, routeResult, calls,
              routeCalls>>
structVars == <<carAttestation, structResult>>
attestorVars == <<requestedPolicy, attestor, attestInput, attestOutput>>
repeatVars == <<secondComputeResult, secondAttestResult>>
planVars == <<adapter, planPc, planNodes, planConstraints, planResult,
              solverCalls>>
readVars == <<haltReads>>
learVars == <<learParams, learPc, learAdaptation, learResult, learBefore,
              learRounds>>
settleVars == <<settlement, settleCalls>>
pieVars == <<pieEnvelope, pieValidation, pieRetry>>
restVars == <<settleVars, pieVars>>
extraVars == <<readVars, learVars, restVars>>
otherVars == <<structVars, attestorVars, repeatVars, planVars, extraVars>>
historyVars == <<controlHistory, auditLog>>
sideVars == <<otherVars, historyVars>>
vars == <<gateVars, sideVars>>

None == [tag |-> "none"]           \* nothing produced yet
Null == [tag |-> "null"]           \* the JavaScript null a function returned
Thrown == [tag |-> "thrown"]       \* the call threw
Undefined == [tag |-> "undefined"] \* the JavaScript undefined

-----------------------------------------------------------------------------
(* Bounds of the model *)

MaxTicks == 2
MaxRouteCalls == 2
MaxDeps == 2          \* longest dependency list of a rotation node
MaxControlCalls == 3  \* halt / resume calls recorded in controlHistory
MaxReads == 2         \* isRoutingHalted calls recorded in haltReads
MaxRounds == 2        \* reinforce calls of the learning loop
MaxSettleCalls == 3   \* updates of the tracked settlement

-----------------------------------------------------------------------------
(* Numbers: parseFloat, NaN, comparisons, toFixed *)

NaN == [nan |-> TRUE, v |-> 0]
Num(n) == [nan |-> FALSE, v |-> n]

\* The numerals of the model and their values; every other string is no number.
DecimalValue ==
    ("0" :> 0) @@ ("0.000000" :> 0) @@
    ("1" :> 1) @@ ("2" :> 2) @@ ("5" :> 5) @@ ("20" :> 20) @@ ("50" :> 50) @@
    ("100" :> 100) @@ ("300" :> 300) @@ ("100000" :> 100000) @@
    ("200000" :> 200000) @@
    ("2.000000" :> 2) @@ ("3.000000" :> 3) @@ ("4.000000" :> 4) @@
    ("6.000000" :> 6)

parseFloat(s) == IF s \in DOMAIN DecimalValue THEN Num(DecimalValue[s]) ELSE NaN

\* Number.prototype.toFixed(6) on the values multiplyFee produces.
Fixed6 ==
    (0 :> "0.000000") @@
    (2 :> "2.000000") @@ (3 :> "3.000000") @@ (4 :> "4.000000") @@
    (6 :> "6.000000")

toFixed6(x) == IF x.nan THEN "NaN" ELSE Fixed6[x.v]

Gt(a, b) == ~a.nan /\ ~b.nan /\ a.v > b.v
Lt(a, b) == ~a.nan /\ ~b.nan /\ a.v < b.v
Le(a, b) == ~a.nan /\ ~b.nan /\ a.v <= b.v
StrictNe(a, b) == a.nan \/ b.nan \/ a.v # b.v      \* a !== b on numbers
Plus(a, b) == IF a.nan \/ b.nan THEN NaN ELSE Num(a.v + b.v)
Times(a, k) == IF a.nan THEN NaN ELSE Num(a.v * k)

Includes(seq, x) == \E i \in 1..Len(seq) : seq[i] = x

-----------------------------------------------------------------------------
(* compute.ts *)

CONF_DIRECT == 99
CONF_DEX == 90
CONF_ILP == 85
TIME_DIRECT == 4
TIME_DEX == 8
TIME_ILP == 15
DEX_FEE_FACTOR == 2
ILP_FEE_FACTOR == 3

multiplyFee(fee, factor) == toFixed6(Times(parseFloat(fee), factor))

getCandidateRoutes(env, ledger, t) ==
    (IF env.amount.currency = "XRP"
       THEN << [routeId |-> <<"route-direct", t>>, type |-> "direct",
                path |-> <<env.destination>>,
                estimatedFee |-> ledger.networkFee,
                estimatedTime |-> TIME_DIRECT, confidence |-> CONF_DIRECT] >>
       ELSE <<>>)
    \o
    (IF env.action = "swap" \/ env.amount.currency # "XRP"
       THEN << [routeId |-> <<"route-dex", t>>, type |-> "xrpl-dex",
                path |-> <<"XRP", env.amount.currency, env.destination>>,
                estimatedFee |-> multiplyFee(ledger.networkFee, DEX_FEE_FACTOR),
                estimatedTime |-> TIME_DEX, confidence |-> CONF_DEX] >>
       ELSE <<>>)
    \o
    << [routeId |-> <<"route-ilp", t>>, type |-> "ilp",
        path |-> <<"ilp-connector", env.destination>>,
        estimatedFee |-> multiplyFee(ledger.networkFee, ILP_FEE_FACTOR),
        estimatedTime |-> TIME_ILP, confidence |-> CONF_ILP] >>

\* filterByAllowedRoutes as it would be if an empty allow-list allowed
\* nothing.
filterByAllowedRoutes_EmptyAllowsNone(routes, allowed) ==
    LET ok(r) == Includes(allowed, r.type) \/ Includes(allowed, "*")
    IN  SelectSeq(routes, ok)

filterByAllowedRoutes(routes, allowed) ==
    IF Len(allowed) = 0 THEN routes
    ELSE LET ok(r) == Includes(allowed, r.type) \/ Includes(allowed, "*")
         IN  SelectSeq(routes, ok)

\* The comparator as it would be with the confidence difference taken the
\* other way round (a.confidence - b.confidence).
RouteBefore_Ascending(a, b) ==
    IF a.confidence # b.confidence THEN a.confidence < b.confidence
    ELSE LET feeA == parseFloat(a.estimatedFee)
             feeB == parseFloat(b.estimatedFee)
         IN  IF StrictNe(feeA, feeB) THEN Lt(feeA, feeB)
             ELSE a.estimatedTime < b.estimatedTime

\* The comparator of selectOptimalRoute: TRUE when a sorts strictly before b.
\* A NaN difference (an unparseable fee) orders nothing.
RouteBefore(a, b) ==
    IF a.confidence # b.confidence THEN b.confidence < a.confidence
    ELSE LET feeA == parseFloat(a.estimatedFee)
             feeB == parseFloat(b.estimatedFee)
         IN  IF StrictNe(feeA, feeB) THEN Lt(feeA, feeB)
             ELSE a.estimatedTime < b.estimatedTime

\* Array.prototype.sort is stable: insertion after the last element that does
\* not sort after r.
RECURSIVE InsertRoute(_, _)
InsertRoute(r, sorted) ==
    IF sorted = <<>> THEN <<r>>
    ELSE IF RouteBefore(r, Head(sorted)) THEN <<r>> \o sorted
         ELSE <<Head(sorted)>> \o InsertRoute(r, Tail(sorted))

RECURSIVE SortRoutes(_)
SortRoutes(routes) ==
    IF routes = <<>> THEN <<>>
    ELSE InsertRoute(routes[Len(routes)], SortRoutes(SubSeq(routes, 1, Len(routes) - 1)))

\* selectOptimalRoute on a non-empty candidate list.
selectOptimalRoute(routes, env) ==
    LET sorted == SortRoutes(routes)
        maxFee == parseFloat(env.constraints.maxFee)
        within(r) == Le(parseFloat(r.estimatedFee), maxFee)
        validRoutes == SelectSeq(sorted, within)
    IN  IF Len(validRoutes) = 0 THEN sorted[1] ELSE validRoutes[1]

allowedCandidatesOf(env, ledger, t) ==
    filterByAllowedRoutes(getCandidateRoutes(env, ledger, t), env.allowedRoutes)

\* compute as it would be if the choice among the allowed candidates rotated
\* with the clock.
compute_RotatingChoice(env, ledger, t) ==
    LET allowedCandidates == allowedCandidatesOf(env, ledger, t)
    IN  IF Len(allowedCandidates) = 0 THEN Thrown
        ELSE LET selectedRoute ==
                     allowedCandidates[(t % Len(allowedCandidates)) + 1]
                 other(r) == r.routeId # selectedRoute.routeId
             IN  [computeId |-> t, timestamp |-> t, envelope |-> env,
                  selectedRoute |-> selectedRoute,
                  alternativeRoutes |-> SelectSeq(allowedCandidates, other)]

\* compute: Thrown stands for the Error selectOptimalRoute throws.
compute(env, ledger, t) ==
    LET allowedCandidates == allowedCandidatesOf(env, ledger, t)
    IN  IF Len(allowedCandidates) = 0 THEN Thrown
        ELSE LET selectedRoute == selectOptimalRoute(allowedCandidates, env)
                 other(r) == r.routeId # selectedRoute.routeId
             IN  [computeId |-> t, timestamp |-> t, envelope |-> env,
                  selectedRoute |-> selectedRoute,
                  alternativeRoutes |-> SelectSeq(allowedCandidates, other)]

-----------------------------------------------------------------------------
(* route.ts, second half: validate and preValidate *)

DEFAULT_CONFIG ==
    [maxTransactionSize |-> "100000", minBalance |-> "20",
     blockedDestinations |-> <<>>]

CONFIDENCE_THRESHOLD == 80
MS_PER_SEC == 1000

nowSec(t) == t \div MS_PER_SEC        \* Math.floor(Date.now() / 1000)

ERR_AMOUNT == "AmountExceedsMax"
ERR_BALANCE == "InsufficientBalance"
ERR_BLOCKED == "DestinationBlocked"
ERR_FEE == "FeeExceedsMax"
ERR_EXPIRED == "EnvelopeExpired"
WARN_PROOFS == "ProofVerificationNotImplemented"
WARN_CONFIDENCE == "LowRouteConfidence"

PushIf(cond, msg) == IF cond THEN <<msg>> ELSE <<>>

\* validate as it would be if it returned at the first failing rule.
validate_ShortCircuit(cr, ledger, balanceStr, cfg, t) ==
    LET env == cr.envelope
        amount == parseFloat(env.amount.value)
        fee == parseFloat(cr.selectedRoute.estimatedFee)
        required == Plus(Plus(amount, fee), parseFloat(cfg.minBalance))
        all ==
            PushIf(Gt(amount, parseFloat(cfg.maxTransactionSize)), ERR_AMOUNT)
            \o PushIf(Lt(parseFloat(balanceStr), required), ERR_BALANCE)
            \o PushIf(Includes(cfg.blockedDestinations, env.destination), ERR_BLOCKED)
            \o PushIf(Gt(fee, parseFloat(env.constraints.maxFee)), ERR_FEE)
            \o PushIf(nowSec(t) >= env.constraints.expiry, ERR_EXPIRED)
        errors == IF all = <<>> THEN <<>> ELSE <<Head(all)>>
        warnings ==
            PushIf(Len(env.requiredProofs) > 0, WARN_PROOFS)
            \o PushIf(cr.selectedRoute.confidence < CONFIDENCE_THRESHOLD, WARN_CONFIDENCE)
    IN  [isValid |-> (Len(errors) = 0), errors |-> errors, warnings |-> warnings]

\* validate as it would be with an exclusive expiry boundary (now > expiry).
validate_ExclusiveExpiry(cr, ledger, balanceStr, cfg, t) ==
    LET env == cr.envelope
        amount == parseFloat(env.amount.value)
        fee == parseFloat(cr.selectedRoute.estimatedFee)
        required == Plus(Plus(amount, fee), parseFloat(cfg.minBalance))
        errors ==
            PushIf(Gt(amount, parseFloat(cfg.maxTransactionSize)), ERR_AMOUNT)
            \o PushIf(Lt(parseFloat(balanceStr), required), ERR_BALANCE)
            \o PushIf(Includes(cfg.blockedDestinations, env.destination), ERR_BLOCKED)
            \o PushIf(Gt(fee, parseFloat(env.constraints.maxFee)), ERR_FEE)
            \o PushIf(nowSec(t) > env.constraints.expiry, ERR_EXPIRED)
        warnings ==
            PushIf(Len(env.requiredProofs) > 0, WARN_PROOFS)
            \o PushIf(cr.selectedRoute.confidence < CONFIDENCE_THRESHOLD, WARN_CONFIDENCE)
    IN  [isValid |-> (Len(errors) = 0), errors |-> errors, warnings |-> warnings]

validate(cr, ledger, balanceStr, cfg, t) ==
    LET env == cr.envelope
        amount == parseFloat(env.amount.value)
        maxSize == parseFloat(cfg.maxTransactionSize)
        balance == parseFloat(balanceStr)
        fee == parseFloat(cr.selectedRoute.estimatedFee)
        minBalance == parseFloat(cfg.minBalance)
        required == Plus(Plus(amount, fee), minBalance)
        errors ==
            PushIf(Gt(amount, maxSize), ERR_AMOUNT)
            \o PushIf(Lt(balance, required), ERR_BALANCE)
            \o PushIf(Includes(cfg.blockedDestinations, env.destination), ERR_BLOCKED)
            \o PushIf(Gt(fee, parseFloat(env.constraints.maxFee)), ERR_FEE)
            \o PushIf(nowSec(t) >= env.constraints.expiry, ERR_EXPIRED)
        warnings ==
            PushIf(Len(env.requiredProofs) > 0, WARN_PROOFS)
            \o PushIf(cr.selectedRoute.confidence < CONFIDENCE_THRESHOLD, WARN_CONFIDENCE)
    IN  [isValid |-> (Len(errors) = 0), errors |-> errors, warnings |-> warnings]

preValidate(env, ledger, t) ==
    IF nowSec(t) >= env.constraints.expiry
      THEN [canProceed |-> FALSE, reason |-> "Envelope already expired"]
    ELSE IF ledger.lastLedgerIndex = 0
      THEN [canProceed |-> FALSE, reason |-> "Ledger state unavailable"]
    ELSE [canProceed |-> TRUE, reason |-> "undefined"]

-----------------------------------------------------------------------------
(* utils/crypto.ts *)

\* JSON.stringify(envelope), one code per serialized field value, in the
\* order the fields are declared.
FieldCode ==
    ("intent-1" :> 11) @@ ("intent-2" :> 14) @@
    ("send" :> 12) @@ ("swap" :> 13) @@
    ("XRP" :> 21) @@ ("USD" :> 22) @@ ("rGood" :> 31) @@ ("rBlocked" :> 32) @@
    ("abc" :> 40) @@ ("1" :> 41) @@ ("2" :> 42) @@ ("5" :> 45) @@
    ("100" :> 46) @@ ("200000" :> 47) @@
    ("ilp" :> 51) @@ ("multi-hop" :> 52) @@ ("direct" :> 53) @@
    ("*" :> 54) @@ ("xrpl-dex" :> 55) @@
    ("proof-1" :> 61)

RECURSIVE CodesOf(_)
CodesOf(seq) ==
    IF seq = <<>> THEN <<>> ELSE <<FieldCode[Head(seq)]>> \o CodesOf(Tail(seq))

Serialize(env) ==
    << FieldCode[env.intentId], FieldCode[env.action],
       FieldCode[env.amount.value], FieldCode[env.amount.currency],
       FieldCode[env.destination], FieldCode[env.constraints.maxFee],
       env.constraints.expiry >>
    \o CodesOf(env.allowedRoutes) \o CodesOf(env.requiredProofs)

HALF == 65536
SIGN_BIT == 32768

\* One round of hash = ((hash << 5) - hash) + char; hash = hash & hash,
\* on a 32-bit word kept as two 16-bit halves [hi, lo].
HashStep(h, c) ==
    LET lo31 == h.lo * 31 + c
        hi31 == h.hi * 31 + (lo31 \div HALF)
    IN  [hi |-> hi31 % HALF, lo |-> lo31 % HALF]

RECURSIVE HashFold(_, _)
HashFold(h, codes) ==
    IF codes = <<>> THEN h ELSE HashFold(HashStep(h, Head(codes)), Tail(codes))

\* Math.abs of the signed 32-bit word: two's complement negation when the
\* sign bit is set.
Abs32(h) ==
    IF h.hi < SIGN_BIT THEN h
    ELSE IF h.lo = 0 THEN [hi |-> (HALF - h.hi) % HALF, lo |-> 0]
         ELSE [hi |-> HALF - 1 - h.hi, lo |-> HALF - h.lo]

hashEnvelope(env) == Abs32(HashFold([hi |-> 0, lo |-> 0], Serialize(env)))

signAttestation(envelopeHash, privateKey, t) ==
    [of |-> envelopeHash, at |-> t]        \* `sig-${envelopeHash}-${Date.now()}`

\* Placeholder in the source: returns false for every attestation and key.
verifySignature(attestation, publicKey) == FALSE

createAttestation(env, privateKey, publicKey, t) ==
    LET validationHash == hashEnvelope(env)
    IN  [attestationId |-> t, envelopeId |-> env.intentId, timestamp |-> t,
         signature |-> signAttestation(validationHash, privateKey, t),
         publicKey |-> publicKey, validationHash |-> validationHash]

verifyAttestation(env, attestation) ==
    IF hashEnvelope(env) # attestation.validationHash THEN FALSE
    ELSE verifySignature(attestation, attestation.publicKey)

-----------------------------------------------------------------------------
(* attest.ts *)

MAX_AGE == 300000

\* attest as it would be without the isValid guard.
attest_NoValidityCheck(env, cr, vr, privateKey, publicKey, t) ==
    LET attestation == createAttestation(env, privateKey, publicKey, t)
    IN  [attestId |-> t, timestamp |-> t, envelope |-> env,
         computeResult |-> cr, validationResult |-> vr,
         attestation |-> attestation,
         attestationChain |-> <<attestation>>]

attest(env, cr, vr, privateKey, publicKey, t) ==
    IF ~vr.isValid THEN Null
    ELSE LET attestation == createAttestation(env, privateKey, publicKey, t)
         IN  [attestId |-> t, timestamp |-> t, envelope |-> env,
              computeResult |-> cr, validationResult |-> vr,
              attestation |-> attestation,
              attestationChain |-> <<attestation>>]

verifyAttest(env, attestation) == verifyAttestation(env, attestation)

\* isAttestationValid as it would be with age <= maxAge.
isAttestationValid_Inclusive(attestation, t) ==
    (t - attestation.timestamp) <= MAX_AGE

isAttestationValid(attestation, t) == (t - attestation.timestamp) < MAX_AGE

-----------------------------------------------------------------------------
(* route.ts, first half: route, the settlement backends, the halt flag *)

LedgerTypes == {"xrpl", "ilp", "test", "other"}   \* "other": the default branch
RetryCounts == {0, 3}
LedgerIndexSamples == {0, 999999}     \* Math.floor(Math.random() * 1000000)
HaltReasons == {"incident", "maintenance"}

RouteConfigs ==
    { [ledgerType |-> lt, nodeUrl |-> "node", timeout |-> 30000, retryCount |-> rc] :
         lt \in LedgerTypes, rc \in RetryCounts }

submitToXRPL(ar, cfg) ==
    [submission |-> [success |-> FALSE,
                     error |-> "XRPL submission not yet implemented"],
     ledgerResponse |-> Null]

submitToILP(ar, cfg) ==
    [submission |-> [success |-> FALSE,
                     error |-> "ILP submission not yet implemented"],
     ledgerResponse |-> Null]

\* transactionHash (`test-tx-${Date.now()}`) is left out of the record.
submitToTestnet(ar, cfg, idx) ==
    [submission |-> [success |-> TRUE, ledgerIndex |-> idx],
     ledgerResponse |-> [simulated |-> TRUE]]

\* The catch block of route.
Caught(err) ==
    [submission |-> [success |-> FALSE, error |-> err],
     ledgerResponse |-> Undefined]

\* RouteResult; routeId and timestamp (both Date.now()) are left out.
BuildRouteResult(ar, settled) ==
    [attestResult |-> ar, submission |-> settled.submission,
     ledgerResponse |-> settled.ledgerResponse]

ExpiredRouteResult(ar) ==
    [attestResult |-> ar,
     submission |-> [success |-> FALSE, error |-> "Attestation expired"],
     ledgerResponse |-> Undefined]

\* The switch of route: the backend function cfg.ledgerType selects.
BackendFor(cfg) ==
    CASE cfg.ledgerType = "xrpl" -> "submitToXRPL"
      [] cfg.ledgerType = "ilp"  -> "submitToILP"
      [] cfg.ledgerType = "test" -> "submitToTestnet"
      [] OTHER                   -> "none"

BackendAnswer(backend, ar, cfg, idx) ==
    CASE backend = "submitToXRPL" -> submitToXRPL(ar, cfg)
      [] backend = "submitToILP"  -> submitToILP(ar, cfg)
      [] OTHER                    -> submitToTestnet(ar, cfg, idx)

\* One entry of the dispatch log: which route call invoked which backend
\* function, with what, and whether the awaited promise settled or rejected.
Dispatch(n, backend, cfg, ar, rejects) ==
    [call |-> n, backend |-> backend, ledgerType |-> cfg.ledgerType,
     attestResult |-> ar, outcome |-> IF rejects THEN "rejected" ELSE "answered"]

HasAttestation == attestResult # None /\ attestResult # Null

\* The entry route hands to logger.audit once the submission has settled;
\* entryId, timestamp and the data fields are left out.
routeAudit(result) ==
    [layer |-> "car", action |-> "route", actor |-> "system",
     outcome |-> IF result.submission.success THEN "success" ELSE "failure"]

\* route, from its entry to the first await (or to its return when no backend
\* is awaited).  The awaited promise may reject; the catch block turns that
\* into a failed submission.
RouteCall(cfg, rejects, idx) ==
    /\ pc \in {"attested", "routed"}
    /\ HasAttestation
    /\ routeCalls < MaxRouteCalls
    /\ routeCalls' = routeCalls + 1
    /\ IF ~isAttestationValid(attestResult.attestation, now)
         THEN /\ routeResult' = ExpiredRouteResult(attestResult)
              /\ pc' = "routed"
              /\ UNCHANGED <<calls, pending, auditLog>>
       ELSE IF BackendFor(cfg) # "none"
         THEN /\ calls' = Append(calls, Dispatch(routeCalls + 1, BackendFor(cfg),
                                                 cfg, attestResult, rejects))
              /\ pending' = IF rejects THEN Caught("backend rejected")
                            ELSE BackendAnswer(BackendFor(cfg), attestResult,
                                               cfg, idx)
              /\ pc' = "inflight"
              /\ routeResult' = None
              /\ auditLog' = auditLog
       ELSE   /\ routeResult' = BuildRouteResult(attestResult,
                                     Caught("Unknown ledger type"))
              /\ pc' = "routed"
              /\ auditLog' = Append(auditLog, routeAudit(routeResult'))
              /\ UNCHANGED <<calls, pending>>
    /\ UNCHANGED <<now, ticks, routingHalted, haltReason, envelope, ledgerState,
                   sourceBalance, config, preResult, computeResult,
                   validationResult, attestResult, verifyResult, otherVars,
                   controlHistory>>

\* route as it would be if a failed submission were submitted again.
RouteReturn_Retry ==
    /\ pc = "inflight"
    /\ IF pending.submission.success
         THEN /\ routeResult' = BuildRouteResult(attestResult, pending)
              /\ pc' = "routed"
              /\ pending' = None
              /\ calls' = calls
         ELSE /\ calls' = Append(calls, calls[Len(calls)])
              /\ routeResult' = BuildRouteResult(attestResult, pending)
              /\ pc' = "routed"
              /\ pending' = None
    /\ auditLog' = Append(auditLog, routeAudit(routeResult'))
    /\ UNCHANGED <<now, ticks, routingHalted, haltReason, envelope, ledgerState,
                   sourceBalance, config, preResult, computeResult,
                   validationResult, attestResult, verifyResult,
                   routeCalls, otherVars, controlHistory>>

\* route, after the await: builds the RouteResult and returns it.
RouteReturn ==
    /\ pc = "inflight"
    /\ routeResult' = BuildRouteResult(attestResult, pending)
    /\ pc' = "routed"
    /\ pending' = None
    /\ auditLog' = Append(auditLog, routeAudit(routeResult'))
    /\ UNCHANGED <<now, ticks, routingHalted, haltReason, envelope, ledgerState,
                   sourceBalance, config, preResult, computeResult,
                   validationResult, attestResult, verifyResult, calls,
                   routeCalls, otherVars, controlHistory>>

\* haltRouting as it would be if it set the flag and left the reason.
haltRouting_FlagOnly(reason) ==
    /\ routingHalted' = TRUE
    /\ haltReason' = haltReason
    /\ UNCHANGED <<now, ticks, pc, envelope, ledgerState, sourceBalance, config,
                   preResult, computeResult, validationResult, attestResult,
                   verifyResult, pending, routeResult, calls, routeCalls,
                   otherVars>>

haltRouting(reason) ==
    /\ routingHalted' = TRUE
    /\ haltReason' = reason
    /\ UNCHANGED <<now, ticks, pc, envelope, ledgerState, sourceBalance, config,
                   preResult, computeResult, validationResult, attestResult,
                   verifyResult, pending, routeResult, calls, routeCalls,
                   otherVars>>

\* resumeRouting as it would be if halts were counted and one resume undid
\* one halt: the flag is cleared only when a single halt is outstanding.
resumeRouting_Counted ==
    /\ routingHalted' =
          (Cardinality({ i \in 1..Len(controlHistory) :
                           controlHistory[i].call = "haltRouting" })
             - Cardinality({ i \in 1..Len(controlHistory) :
                               controlHistory[i].call = "resumeRouting" }) > 1)
    /\ haltReason' = IF routingHalted' THEN haltReason ELSE "null"
    /\ UNCHANGED <<now, ticks, pc, envelope, ledgerState, sourceBalance, config,
                   preResult, computeResult, validationResult, attestResult,
                   verifyResult, pending, routeResult, calls, routeCalls,
                   otherVars>>

resumeRouting ==
    /\ routingHalted' = FALSE
    /\ haltReason' = "null"
    /\ UNCHANGED <<now, ticks, pc, envelope, ledgerState, sourceBalance, config,
                   preResult, computeResult, validationResult, attestResult,
                   verifyResult, pending, routeResult, calls, routeCalls,
                   otherVars>>

\* The entries haltRouting and resumeRouting hand to logger.audit: one for
\* haltRouting; resumeRouting calls logger.info only.
haltRoutingAudits(reason) ==
    << [layer |-> "car", action |-> "haltRouting", actor |-> "system",
        outcome |-> "success"] >>

resumeRoutingAudits == << >>

\* The operator's calls, with the history of calls and their audit entries
\* kept.
ControlCall(call, reason) == [call |-> call, reason |-> reason]

OperatorHalt(reason) ==
    /\ Len(controlHistory) < MaxControlCalls
    /\ haltRouting(reason)
    /\ auditLog' = auditLog \o haltRoutingAudits(reason)
    /\ controlHistory' = Append(controlHistory, ControlCall("haltRouting", reason))

OperatorResume ==
    /\ Len(controlHistory) < MaxControlCalls
    /\ resumeRouting
    /\ auditLog' = auditLog \o resumeRoutingAudits
    /\ controlHistory' = Append(controlHistory, ControlCall("resumeRouting", "null"))

isRoutingHalted == [halted |-> routingHalted, reason |-> haltReason]

\* One isRoutingHalted call: what it returned, and how many halt and resume
\* calls had been made before it.
HaltRead(result) == [at |-> Len(controlHistory), result |-> result]

\* isRoutingHalted as it would be if reading the state also cleared it.
IsRoutingHaltedCall_ReadAndClear ==
    /\ Len(haltReads) < MaxReads
    /\ haltReads' = Append(haltReads, HaltRead(isRoutingHalted))
    /\ routingHalted' = FALSE
    /\ haltReason' = "null"
    /\ UNCHANGED <<now, ticks, pc, envelope, ledgerState, sourceBalance, config,
                   preResult, computeResult, validationResult, attestResult,
                   verifyResult, pending, routeResult, calls, routeCalls,
                   historyVars, structVars, attestorVars, repeatVars,
                   planVars, learVars, restVars>>

\* A call of isRoutingHalted: it returns the pair and writes nothing.
IsRoutingHaltedCall ==
    /\ Len(haltReads) < MaxReads
    /\ haltReads' = Append(haltReads, HaltRead(isRoutingHalted))
    /\ UNCHANGED <<gateVars, historyVars, structVars, attestorVars, repeatVars,
                   planVars, learVars, restVars>>

-----------------------------------------------------------------------------
(* security/pqc/attestation.ts *)

\* The crypto policy ids, as the words their names are made of; "" is the
\* empty (falsy) string.
PolicyWords ==
    ("CLASSICAL_ONLY" :> <<"CLASSICAL", "ONLY">>) @@
    ("HYBRID_ECDSA_SECP256K1_PLUS_DILITHIUM" :>
        <<"HYBRID", "ECDSA", "SECP256K1", "PLUS", "DILITHIUM">>) @@
    ("HYBRID_ED25519_PLUS_DILITHIUM" :>
        <<"HYBRID", "ED25519", "PLUS", "DILITHIUM">>) @@
    ("PQC_ONLY_DILITHIUM" :> <<"PQC", "ONLY", "DILITHIUM">>) @@
    ("" :> <<>>)

CryptoPolicyIds == DOMAIN PolicyWords \ {""}
HybridPolicyIds ==
    {"HYBRID_ECDSA_SECP256K1_PLUS_DILITHIUM", "HYBRID_ED25519_PLUS_DILITHIUM"}
PqcOnlyPolicyIds == {"PQC_ONLY_DILITHIUM"}

\* String.prototype.includes: the needle occurs as a run of consecutive words.
StringIncludes(policy, needle) ==
    LET hay == PolicyWords[policy]
    IN  \E i \in 0..(Len(hay) - Len(needle)) :
           \A j \in 1..Len(needle) : hay[i + j] = needle[j]

Truthy(str) == str # ""
IsNumber(x) == x.type = "number"      \* typeof x === 'number'
Present(sig) == sig # Undefined

\* isValidAttestationStructure as it would be if a hybrid attestation were
\* rejected only when both signatures are missing.
isValidAttestationStructure_EitherSuffices(attestation) ==
    IF ~Truthy(attestation.attestationId) THEN FALSE
    ELSE IF ~Truthy(attestation.suite) THEN FALSE
    ELSE IF ~Truthy(attestation.cryptoPolicy) THEN FALSE
    ELSE IF ~IsNumber(attestation.keyEpoch) THEN FALSE
    ELSE IF ~IsNumber(attestation.createdAt) THEN FALSE
    ELSE IF ~Truthy(attestation.envelopeHashHex) THEN FALSE
    ELSE IF /\ StringIncludes(attestation.cryptoPolicy, <<"HYBRID">>)
            /\ (~Present(attestation.classicalSig) /\ ~Present(attestation.pqcSig))
         THEN FALSE
    ELSE IF /\ StringIncludes(attestation.cryptoPolicy, <<"PQC", "ONLY">>)
            /\ ~Present(attestation.pqcSig)
         THEN FALSE
    ELSE TRUE

isValidAttestationStructure(attestation) ==
    IF ~Truthy(attestation.attestationId) THEN FALSE
    ELSE IF ~Truthy(attestation.suite) THEN FALSE
    ELSE IF ~Truthy(attestation.cryptoPolicy) THEN FALSE
    ELSE IF ~IsNumber(attestation.keyEpoch) THEN FALSE
    ELSE IF ~IsNumber(attestation.createdAt) THEN FALSE
    ELSE IF ~Truthy(attestation.envelopeHashHex) THEN FALSE
    ELSE IF /\ StringIncludes(attestation.cryptoPolicy, <<"HYBRID">>)
            /\ (~Present(attestation.classicalSig) \/ ~Present(attestation.pqcSig))
         THEN FALSE
    ELSE IF /\ StringIncludes(attestation.cryptoPolicy, <<"PQC", "ONLY">>)
            /\ ~Present(attestation.pqcSig)
         THEN FALSE
    ELSE TRUE

NumberOrNot == { [type |-> "undefined", v |-> 0], [type |-> "number", v |-> 1] }

ClassicalSigs ==
    { Undefined } \cup
    { [alg |-> a, publicKeyHex |-> "pk", signatureHex |-> "sig"] :
         a \in {"ed25519", "secp256k1"} }

PqcSigs ==
    { Undefined,
      [alg |-> "dilithium2", publicKeyHex |-> "pk", signatureHex |-> "sig"] }

CarAttestations ==
    [attestationId : {"", "uuid-1"},
     suite : {"", "CAR_ATTEST_V1_HYBRID"},
     cryptoPolicy : DOMAIN PolicyWords,
     keyEpoch : NumberOrNot,
     createdAt : NumberOrNot,
     envelopeHashHex : {"", "ab12"},
     classicalSig : ClassicalSigs,
     pqcSig : PqcSigs]

CheckStructure ==
    /\ carAttestation # None
    /\ structResult = None
    /\ structResult' = [valid |-> isValidAttestationStructure(carAttestation)]
    /\ UNCHANGED <<gateVars, historyVars, extraVars,
                   carAttestation, attestorVars, repeatVars, planVars>>

-----------------------------------------------------------------------------
(* car/attest/index.ts and car/attest/suites: the attestor registry *)

Error(message) == [tag |-> "thrown", message |-> message]
JsNumber(n) == [type |-> "number", v |-> n]

\* sha3_256(bytes).toString("hex"): a digest is never the empty string.
sha3_256 ==
    ("" :> "a7ffc6f8") @@ ("pie-bytes-1" :> "5c1e09d2") @@
    ("pie-bytes-2" :> "e4b7730a")

signEcdsaSecp256k1(msg) ==
    [publicKeyHex |-> "SECP256K1_PUBLIC_KEY_HEX_PLACEHOLDER",
     signatureHex |-> "SECP256K1_SIGNATURE_HEX_PLACEHOLDER"]

signEd25519(msg) ==
    [publicKeyHex |-> "ED25519_PUBLIC_KEY_HEX_PLACEHOLDER",
     signatureHex |-> "ED25519_SIGNATURE_HEX_PLACEHOLDER"]

signDilithium(msg) ==
    [alg |-> "dilithium2",
     publicKeyHex |-> "DILITHIUM_PUBLIC_KEY_HEX_PLACEHOLDER",
     signatureHex |-> "DILITHIUM_SIGNATURE_HEX_PLACEHOLDER"]

\* createHash("sha256").update(JSON.stringify(attestation)).digest("hex"),
\* kept as the commitment to the record it was computed from.
attestationHash(attestation) == [sha256 |-> attestation]

hybridEcdsaDilithiumSuite ==
    [tag |-> "attestor", id |-> "CAR_ATTEST_V1_HYBRID_ECDSA_DILITHIUM",
     supports |-> <<"HYBRID_ECDSA_SECP256K1_PLUS_DILITHIUM">>]

hybridEd25519DilithiumSuite ==
    [tag |-> "attestor", id |-> "CAR_ATTEST_V1_HYBRID_ED25519_DILITHIUM",
     supports |-> <<"HYBRID_ED25519_PLUS_DILITHIUM">>]

\* hybridEcdsaDilithiumSuite.attest
hybridEcdsaDilithiumAttest(input, uuid, t) ==
    LET envelopeHashHex == sha3_256[input.envelopeCanonicalBytes]
        classical == signEcdsaSecp256k1(envelopeHashHex)
        pqc == signDilithium(envelopeHashHex)
        attestation ==
            [attestationId |-> uuid, suite |-> "CAR_ATTEST_V1_HYBRID",
             cryptoPolicy |-> "HYBRID_ECDSA_SECP256K1_PLUS_DILITHIUM",
             keyEpoch |-> input.keyEpoch, createdAt |-> JsNumber(t),
             envelopeHashHex |-> envelopeHashHex,
             classicalSig |-> [alg |-> "secp256k1",
                               publicKeyHex |-> classical.publicKeyHex,
                               signatureHex |-> classical.signatureHex],
             pqcSig |-> [alg |-> pqc.alg, publicKeyHex |-> pqc.publicKeyHex,
                         signatureHex |-> pqc.signatureHex],
             meta |-> "secp256k1 + dilithium over SHA3-256(envelope)"]
    IN  [attestation |-> attestation,
         attestationHashHex |-> attestationHash(attestation)]

\* hybridEd25519DilithiumSuite.attest as it would be if it left out the
\* post-quantum signature.
hybridEd25519DilithiumAttest_NoPqc(input, uuid, t) ==
    LET envelopeHashHex == sha3_256[input.envelopeCanonicalBytes]
        classical == signEd25519(envelopeHashHex)
        attestation ==
            [attestationId |-> uuid, suite |-> "CAR_ATTEST_V1_HYBRID",
             cryptoPolicy |-> "HYBRID_ED25519_PLUS_DILITHIUM",
             keyEpoch |-> input.keyEpoch, createdAt |-> JsNumber(t),
             envelopeHashHex |-> envelopeHashHex,
             classicalSig |-> [alg |-> "ed25519",
                               publicKeyHex |-> classical.publicKeyHex,
                               signatureHex |-> classical.signatureHex],
             pqcSig |-> Undefined,
             meta |-> "ed25519 + dilithium over SHA3-256(envelope)"]
    IN  [attestation |-> attestation,
         attestationHashHex |-> attestationHash(attestation)]

\* hybridEd25519DilithiumSuite.attest
hybridEd25519DilithiumAttest(input, uuid, t) ==
    LET envelopeHashHex == sha3_256[input.envelopeCanonicalBytes]
        classical == signEd25519(envelopeHashHex)
        pqc == signDilithium(envelopeHashHex)
        attestation ==
            [attestationId |-> uuid, suite |-> "CAR_ATTEST_V1_HYBRID",
             cryptoPolicy |-> "HYBRID_ED25519_PLUS_DILITHIUM",
             keyEpoch |-> input.keyEpoch, createdAt |-> JsNumber(t),
             envelopeHashHex |-> envelopeHashHex,
             classicalSig |-> [alg |-> "ed25519",
                               publicKeyHex |-> classical.publicKeyHex,
                               signatureHex |-> classical.signatureHex],
             pqcSig |-> [alg |-> pqc.alg, publicKeyHex |-> pqc.publicKeyHex,
                         signatureHex |-> pqc.signatureHex],
             meta |-> "ed25519 + dilithium over SHA3-256(envelope)"]
    IN  [attestation |-> attestation,
         attestationHashHex |-> attestationHash(attestation)]

createAttestor(cryptoPolicy) ==
    CASE cryptoPolicy = "HYBRID_ED25519_PLUS_DILITHIUM" ->
            hybridEd25519DilithiumSuite
      [] cryptoPolicy = "HYBRID_ECDSA_SECP256K1_PLUS_DILITHIUM" ->
            hybridEcdsaDilithiumSuite
      [] cryptoPolicy = "CLASSICAL_ONLY" ->
            Error("CLASSICAL_ONLY attestor not yet implemented")
      [] cryptoPolicy = "PQC_ONLY_DILITHIUM" ->
            Error("PQC_ONLY_DILITHIUM attestor not yet implemented")
      [] OTHER ->
            Error("Unsupported cryptoPolicy for CAR attestation")

getSupportedPolicies ==
    <<"HYBRID_ED25519_PLUS_DILITHIUM", "HYBRID_ECDSA_SECP256K1_PLUS_DILITHIUM">>

isPolicySupported(policy) == Includes(getSupportedPolicies, policy)

\* The policy ids a caller may hand over: the enumerated four and one more.
RequestedPolicies == CryptoPolicyIds \cup {"FALCON_ONLY"}
KeyEpochs == {0, 1, 7}
CanonicalBytes == DOMAIN sha3_256
Uuids == {"uuid-1", "uuid-2"}         \* randomUUID()

AttestInputs ==
    { [envelope |-> envelope, envelopeCanonicalBytes |-> b,
       keyEpoch |-> JsNumber(k)] : b \in CanonicalBytes, k \in KeyEpochs }

CreateAttestor(cryptoPolicy) ==
    /\ attestor = None
    /\ requestedPolicy' = cryptoPolicy
    /\ attestor' = createAttestor(cryptoPolicy)
    /\ UNCHANGED <<gateVars, historyVars, extraVars,
                   structVars, attestInput, attestOutput, repeatVars,
                   planVars>>

\* attestor.attest(input) on the attestor createAttestor returned.
AttestorAttest(input, uuid) ==
    /\ attestor # None
    /\ attestor.tag = "attestor"
    /\ attestOutput = None
    /\ attestInput' = input
    /\ attestOutput' =
          IF attestor.id = hybridEd25519DilithiumSuite.id
            THEN hybridEd25519DilithiumAttest(input, uuid, now)
            ELSE hybridEcdsaDilithiumAttest(input, uuid, now)
    /\ carAttestation' = attestOutput'.attestation
    /\ UNCHANGED <<gateVars, historyVars, extraVars,
                   structResult, requestedPolicy, attestor,
                   repeatVars, planVars>>

-----------------------------------------------------------------------------
(* optimizers/dwave: model.ts, adapter.ts, index.ts (the rotation planner) *)

TIER_PRIORITY ==
    ("CRITICAL" :> 0) @@ ("HIGH" :> 1) @@ ("MEDIUM" :> 2) @@ ("LOW" :> 3)

isValidRotationNode(node) ==
    IF ~Truthy(node.id) THEN FALSE
    ELSE IF ~Truthy(node.tier) \/ node.tier \notin DOMAIN TIER_PRIORITY THEN FALSE
    ELSE IF ~Truthy(node.windowStartUtc) \/ ~Truthy(node.windowEndUtc) THEN FALSE
    ELSE IF ~IsNumber(node.maxDowntimeMinutes) THEN FALSE
    ELSE TRUE             \* dependencies is an array in every input

isValidConstraints(constraints) ==
    IF ~IsNumber(constraints.maxConcurrent) \/ constraints.maxConcurrent.v < 1
      THEN FALSE
    ELSE IF ~IsNumber(constraints.maxTotalDowntimeMinutes) THEN FALSE
    ELSE IF ~IsNumber(constraints.epochTarget) THEN FALSE
    ELSE TRUE

\* ISO timestamps of one format; localeCompare orders them as their position
\* in this list.
WindowStamps ==
    <<"2026-01-01T00:00:00Z", "2026-01-01T06:00:00Z", "2026-01-02T00:00:00Z">>

StampRank(stamp) == CHOOSE i \in 1..Len(WindowStamps) : WindowStamps[i] = stamp

localeCompare(a, b) ==
    IF StampRank(a) < StampRank(b) THEN -1
    ELSE IF StampRank(a) > StampRank(b) THEN 1 ELSE 0

\* The comparator of the greedy adapter: negative when a sorts before b.
CompareNodes(a, b) ==
    IF TIER_PRIORITY[a.tier] - TIER_PRIORITY[b.tier] # 0
      THEN TIER_PRIORITY[a.tier] - TIER_PRIORITY[b.tier]
      ELSE localeCompare(a.windowStartUtc, b.windowStartUtc)

\* Array.prototype.sort is stable.
RECURSIVE InsertNode(_, _)
InsertNode(n, sorted) ==
    IF sorted = <<>> THEN <<n>>
    ELSE IF CompareNodes(n, Head(sorted)) < 0 THEN <<n>> \o sorted
         ELSE <<Head(sorted)>> \o InsertNode(n, Tail(sorted))

RECURSIVE SortNodes(_)
SortNodes(nodes) ==
    IF nodes = <<>> THEN <<>>
    ELSE InsertNode(nodes[Len(nodes)], SortNodes(SubSeq(nodes, 1, Len(nodes) - 1)))

PlanItem(n, constraints) ==
    [id |-> n.id, scheduledStartUtc |-> n.windowStartUtc,
     scheduledEndUtc |-> n.windowEndUtc, epoch |-> constraints.epochTarget]

\* greedyRotationAdapter.solve as it would be if it ordered the nodes by
\* window start alone.
greedySolve_WindowOnly(nodes, constraints) ==
    LET RECURSIVE Ins(_, _)
        Ins(n, sorted) ==
            IF sorted = <<>> THEN <<n>>
            ELSE IF localeCompare(n.windowStartUtc, Head(sorted).windowStartUtc) < 0
                   THEN <<n>> \o sorted
                 ELSE <<Head(sorted)>> \o Ins(n, Tail(sorted))
        RECURSIVE Srt(_)
        Srt(ns) ==
            IF ns = <<>> THEN <<>>
            ELSE Ins(ns[Len(ns)], Srt(SubSeq(ns, 1, Len(ns) - 1)))
        sorted == Srt(nodes)
        items == [i \in 1..Len(sorted) |-> PlanItem(sorted[i], constraints)]
    IN  [epoch |-> constraints.epochTarget, items |-> items,
         score |-> Len(items), notes |-> "Used GREEDY_FALLBACK_V1 adapter"]

\* greedyRotationAdapter.solve
greedySolve(nodes, constraints) ==
    LET sorted == SortNodes(nodes)
        items == [i \in 1..Len(sorted) |-> PlanItem(sorted[i], constraints)]
    IN  [epoch |-> constraints.epochTarget, items |-> items,
         score |-> Len(items), notes |-> "Used GREEDY_FALLBACK_V1 adapter"]

\* dwaveOceanAdapter.solve falls back to the greedy adapter.
dwaveSolve(nodes, constraints) == greedySolve(nodes, constraints)

AdapterIds == {"GREEDY_FALLBACK_V1", "DWAVE_OCEAN_HYBRID_V1"}

AdapterSolve(adapterId, nodes, constraints) ==
    IF adapterId = "GREEDY_FALLBACK_V1" THEN greedySolve(nodes, constraints)
    ELSE dwaveSolve(nodes, constraints)

\* new Map(nodes.map(n => [n.id, n])): a later node replaces an earlier one
\* of the same id.
NodeMap(nodes) ==
    [id \in {nodes[i].id : i \in 1..Len(nodes)} |->
        LET last == CHOOSE i \in 1..Len(nodes) :
                       /\ nodes[i].id = id
                       /\ \A j \in (i + 1)..Len(nodes) : nodes[j].id # id
        IN  nodes[last]]

\* hasCycle of validateNoCycles, with the two marker sets threaded through:
\* st = [found, visited, inStack].
RECURSIVE hasCycle(_, _, _)
RECURSIVE hasCycleOfDeps(_, _, _)
hasCycle(nodeMap, nodeId, st) ==
    IF nodeId \in st.inStack THEN [st EXCEPT !.found = TRUE]
    ELSE IF nodeId \in st.visited THEN [st EXCEPT !.found = FALSE]
    ELSE LET entered == [found |-> FALSE,
                         visited |-> st.visited \cup {nodeId},
                         inStack |-> st.inStack \cup {nodeId}]
             deps == IF nodeId \in DOMAIN nodeMap
                       THEN nodeMap[nodeId].dependencies ELSE <<>>
             after == hasCycleOfDeps(nodeMap, deps, entered)
         IN  IF after.found THEN after
             ELSE [after EXCEPT !.inStack = @ \ {nodeId}]

\* for (const dep of node.dependencies) if (hasCycle(dep)) return true
hasCycleOfDeps(nodeMap, deps, st) ==
    IF deps = <<>> THEN st
    ELSE LET first == hasCycle(nodeMap, Head(deps), st)
         IN  IF first.found THEN first
             ELSE hasCycleOfDeps(nodeMap, Tail(deps), first)

CycleError(nodeId) ==
    [tag |-> "thrown", message |-> "Dependency cycle detected involving node",
     node |-> nodeId]

\* validateNoCycles as it would be if the search started from the first node
\* only.
validateNoCycles_FirstNodeOnly(nodes) ==
    IF nodes = <<>> THEN Null
    ELSE LET after == hasCycle(NodeMap(nodes), nodes[1].id,
                               [found |-> FALSE, visited |-> {}, inStack |-> {}])
         IN  IF after.found THEN CycleError(nodes[1].id) ELSE Null

\* validateNoCycles: Null when it returns, the error when it throws.
RECURSIVE validateNoCyclesFrom(_, _, _, _)
validateNoCyclesFrom(nodes, nodeMap, i, st) ==
    IF i > Len(nodes) THEN Null
    ELSE LET after == hasCycle(nodeMap, nodes[i].id, st)
         IN  IF after.found THEN CycleError(nodes[i].id)
             ELSE validateNoCyclesFrom(nodes, nodeMap, i + 1, after)

validateNoCycles(nodes) ==
    validateNoCyclesFrom(nodes, NodeMap(nodes), 1,
                         [found |-> FALSE, visited |-> {}, inStack |-> {}])

\* buildPlan up to the solve call: Null when the checks pass, the error
\* otherwise.
buildPlanChecks(nodes, constraints) ==
    IF \E i \in 1..Len(nodes) : ~isValidRotationNode(nodes[i])
      THEN Error("Invalid rotation node")
    ELSE IF ~isValidConstraints(constraints)
      THEN Error("Invalid rotation constraints")
    ELSE validateNoCycles(nodes)

SolveCall(adapterId, nodes, constraints) ==
    [adapter |-> adapterId, nodes |-> nodes, constraints |-> constraints]

InitPlanner ==
    /\ adapter = "GREEDY_FALLBACK_V1"
    /\ planPc = "idle"
    /\ planNodes = None
    /\ planConstraints = None
    /\ planResult = None
    /\ solverCalls = <<>>

setAdapter(newAdapter) ==
    /\ adapter' = newAdapter
    /\ UNCHANGED <<gateVars, historyVars, extraVars,
                   structVars, attestorVars, repeatVars, planPc,
                   planNodes, planConstraints, planResult, solverCalls>>

\* buildPlan, from its entry to the awaited solve call (or to its throw).
BuildPlanCall(nodes, constraints) ==
    /\ planPc = "idle"
    /\ planNodes' = nodes
    /\ planConstraints' = constraints
    /\ IF buildPlanChecks(nodes, constraints) = Null
         THEN /\ solverCalls' =
                    Append(solverCalls, SolveCall(adapter, nodes, constraints))
              /\ planPc' = "solving"
              /\ planResult' = None
         ELSE /\ planResult' = buildPlanChecks(nodes, constraints)
              /\ planPc' = "done"
              /\ UNCHANGED solverCalls
    /\ UNCHANGED <<gateVars, historyVars, extraVars,
                   structVars, attestorVars, repeatVars, adapter>>

\* buildPlan, after the await: returns the plan the adapter produced.
BuildPlanReturn ==
    /\ planPc = "solving"
    /\ planResult' = AdapterSolve(solverCalls[Len(solverCalls)].adapter,
                                  planNodes, planConstraints)
    /\ planPc' = "done"
    /\ UNCHANGED <<gateVars, historyVars, extraVars,
                   structVars, attestorVars, repeatVars, adapter,
                   planNodes, planConstraints, solverCalls>>

-----------------------------------------------------------------------------
(* LEAR: adapt and reinforce (src/src/lear).  Parameter values and bounds   *)
(* are whole numbers; adaptationRate is kept in quarters (RATE_SCALE), and  *)
(* the inputs are chosen so that (maxBound - minBound) * adaptationRate is  *)
(* a whole number.  Assessment confidence is in hundredths.                 *)

RATE_SCALE == 4
ADAPT_CONFIDENCE == 60       \* assessment.confidence < 0.6 is skipped

Minus(a, b) == IF a.nan \/ b.nan THEN NaN ELSE Num(a.v - b.v)
Neg(a) == IF a.nan THEN NaN ELSE Num(0 - a.v)
MathMax(a, b) ==
    IF a.nan \/ b.nan THEN NaN ELSE IF a.v >= b.v THEN a ELSE b
MathMin(a, b) ==
    IF a.nan \/ b.nan THEN NaN ELSE IF a.v <= b.v THEN a ELSE b
RangeTimesRate(range, rate) ==
    IF range.nan \/ rate.nan THEN NaN ELSE Num((range.v * rate.v) \div RATE_SCALE)

\* params.find(p => p.paramId === id): the first match, or Undefined.
FindParam(params, id) ==
    IF \E i \in 1..Len(params) : params[i].paramId = id
      THEN params[CHOOSE i \in 1..Len(params) :
                     /\ params[i].paramId = id
                     /\ \A j \in 1..(i - 1) : params[j].paramId # id]
      ELSE Undefined

FindChange(changes, id) ==
    IF \E i \in 1..Len(changes) : changes[i].paramId = id
      THEN changes[CHOOSE i \in 1..Len(changes) :
                      /\ changes[i].paramId = id
                      /\ \A j \in 1..(i - 1) : changes[j].paramId # id]
      ELSE Undefined

MaxDelta(param) ==
    RangeTimesRate(Minus(param.maxBound, param.minBound), param.adaptationRate)

\* ParameterChange, or Null; the rationale is left out.
calculateChange(param, assessment) ==
    LET maxDelta == MaxDelta(param)
        targetValue == assessment.suggestedValue
        delta == MathMax(Neg(maxDelta),
                         MathMin(maxDelta, Minus(targetValue, param.currentValue)))
        newValue == MathMax(param.minBound,
                            MathMin(param.maxBound, Plus(param.currentValue, delta)))
    IN  IF ~StrictNe(newValue, param.currentValue)
          THEN Null
          ELSE [paramId |-> param.paramId, previousValue |-> param.currentValue,
                newValue |-> newValue]

\* The loop of adapt over evaluation.assessments, from assessment i on.
RECURSIVE adaptChanges(_, _, _)
adaptChanges(assessments, currentParams, i) ==
    IF i > Len(assessments) THEN << >>
    ELSE LET assessment == assessments[i]
             param == FindParam(currentParams, assessment.paramId)
             rest == adaptChanges(assessments, currentParams, i + 1)
         IN  IF param = Undefined THEN rest
             ELSE IF assessment.suggestedDirection = "maintain" THEN rest
             ELSE IF assessment.confidence < ADAPT_CONFIDENCE THEN rest
             ELSE IF calculateChange(param, assessment) = Null THEN rest
             ELSE <<calculateChange(param, assessment)>> \o rest

\* Adaptation; adaptationId and timestamp are left out.
adapt(evaluation, currentParams) ==
    [evaluation |-> evaluation,
     changes |-> adaptChanges(evaluation.assessments, currentParams, 1),
     applied |-> FALSE]

applyAdaptation(params, adaptation) ==
    [i \in 1..Len(params) |->
        LET change == FindChange(adaptation.changes, params[i].paramId)
        IN  IF change = Undefined THEN params[i]
            ELSE [params[i] EXCEPT !.currentValue = change.newValue]]

validateAdaptation(adaptation, params) ==
    \A i \in 1..Len(adaptation.changes) :
        LET change == adaptation.changes[i]
            param == FindParam(params, change.paramId)
        IN  /\ param # Undefined
            /\ ~(Lt(change.newValue, param.minBound)
                   \/ Gt(change.newValue, param.maxBound))

\* ReinforcementResult; reinforcementId, timestamp and feedback are left out.
reinforce(adaptation, currentParams) ==
    IF ~validateAdaptation(adaptation, currentParams)
      THEN [adaptation |-> adaptation, success |-> FALSE,
            newParams |-> currentParams]
      ELSE [adaptation |-> [adaptation EXCEPT !.applied = TRUE],
            success |-> TRUE,
            newParams |-> applyAdaptation(currentParams, adaptation)]

InitLear ==
    /\ learPc = "idle"
    /\ learAdaptation = None
    /\ learResult = None
    /\ learBefore = None
    /\ learRounds = 0

\* The caller runs adapt on its current parameters.
LearAdapt(evaluation) ==
    /\ learPc = "idle"
    /\ learRounds < MaxRounds
    /\ learAdaptation' = adapt(evaluation, learParams)
    /\ learPc' = "adapted"
    /\ UNCHANGED <<gateVars, historyVars, structVars, attestorVars, repeatVars,
                   planVars, readVars, restVars, learParams, learResult, learBefore,
                   learRounds>>

\* The caller hands an adaptation to reinforce together with its current
\* parameters, and goes on with the parameters reinforce returned.
Reinforce(adaptation, derived) ==
    /\ learRounds < MaxRounds
    /\ learRounds' = learRounds + 1
    /\ learResult' = reinforce(adaptation, learParams)
    /\ learBefore' = [params |-> learParams, derived |-> derived]
    /\ learParams' = learResult'.newParams
    /\ learAdaptation' = None
    /\ learPc' = "idle"
    /\ UNCHANGED <<gateVars, historyVars, structVars, attestorVars, repeatVars,
                   planVars, readVars, restVars>>

\* reinforce of the adaptation adapt has just returned.
LearReinforce ==
    /\ learPc = "adapted"
    /\ Reinforce(learAdaptation, TRUE)

\* reinforce of an adaptation the caller did not get from adapt on its
\* current parameters.
LearReinforceGiven(adaptation) ==
    /\ learPc = "idle"
    /\ Reinforce(adaptation, FALSE)

-----------------------------------------------------------------------------
(* Settlement tracking (src/src/ledger/settlement.ts) *)

\* Settlement; settlementId (`settle-${Date.now()}`) is left out.
createSettlement(intentId, ledger, t) ==
    [intentId |-> intentId, timestamp |-> t, status |-> "pending",
     ledger |-> ledger, transactionHash |-> Undefined, confirmations |-> 0,
     finalizedAt |-> Undefined]

recordSubmission(s, result) ==
    [s EXCEPT !.status = IF result.success THEN "submitted" ELSE "failed",
              !.transactionHash = result.transactionHash]

recordConfirmation(s, confirmations, cfg, t) ==
    LET isFinalized == confirmations >= cfg.confirmationRequirement
    IN  [s EXCEPT !.status = IF isFinalized THEN "finalized" ELSE "confirming",
                  !.confirmations = confirmations,
                  !.finalizedAt = IF isFinalized THEN JsNumber(t) ELSE Undefined]

checkTimeout(s, cfg, t) ==
    LET elapsed == t - s.timestamp
    IN  IF elapsed > cfg.timeoutMs /\ s.status # "finalized"
          THEN [s EXCEPT !.status = "timeout"]
          ELSE s

isFinal(s) == s.status \in {"finalized", "failed", "timeout"}

SettlementConfig ==
    [primaryLedger |-> "xrpl", confirmationRequirement |-> 3, timeoutMs |-> 30000]

SubmissionResults ==
    { [success |-> TRUE, transactionHash |-> [hash |-> "tx-1"]],
      [success |-> FALSE, transactionHash |-> Undefined] }

ConfirmationCounts == {1, 3}

InitSettlement ==
    /\ settlement = None
    /\ settleCalls = 0

settleFrame == <<gateVars, historyVars, structVars, attestorVars, repeatVars,
                 planVars, readVars, learVars, pieVars>>

CreateSettlement ==
    /\ settlement = None
    /\ settlement' = createSettlement("intent-1", "xrpl", now)
    /\ UNCHANGED <<settleCalls, settleFrame>>

\* The caller replaces the settlement it tracks by the one the update
\* function returned.
RecordSubmission(result) ==
    /\ settlement # None
    /\ settleCalls < MaxSettleCalls
    /\ settleCalls' = settleCalls + 1
    /\ settlement' = recordSubmission(settlement, result)
    /\ UNCHANGED settleFrame

RecordConfirmation(confirmations) ==
    /\ settlement # None
    /\ settleCalls < MaxSettleCalls
    /\ settleCalls' = settleCalls + 1
    /\ settlement' = recordConfirmation(settlement, confirmations,
                                        SettlementConfig, now)
    /\ UNCHANGED settleFrame

CheckTimeout ==
    /\ settlement # None
    /\ settleCalls < MaxSettleCalls
    /\ settleCalls' = settleCalls + 1
    /\ settlement' = checkTimeout(settlement, SettlementConfig, now)
    /\ UNCHANGED settleFrame

-----------------------------------------------------------------------------
(* PIE envelope layer: isExpired, validateEnvelope, canRetry                *)
(* (src/unnamed/part_005, part_006).  maxSlippage is kept in hundredths.    *)

Explanations == {"Pay invoice 42 to supplier", "Pay invoice 42"}
ExplanationLength ==
    ("Pay invoice 42 to supplier" :> 26) @@ ("Pay invoice 42" :> 14)

\* PaymentIntentEnvelopeSchema.safeParse(data).success; the uuid format of
\* intentId and riskBounds are left out.
validatePIESchema(data) ==
    /\ data.action \in {"send", "swap", "batch"}
    /\ data.amount.value \in DOMAIN DecimalValue
    /\ data.amount.currency # ""
    /\ data.destination # ""
    /\ data.constraints.maxSlippage >= 0 /\ data.constraints.maxSlippage <= 100
    /\ data.constraints.maxFee \in DOMAIN DecimalValue
    /\ data.constraints.expiry > 0
    /\ ExplanationLength[data.explanation] >= 10
    /\ ExplanationLength[data.explanation] <= 500

isExpired(env, t) == t > env.constraints.expiry * 1000

PIE_EXPIRED == "Envelope has expired"
PIE_MAX == "Amount exceeds maximum"
PIE_MIN == "Amount below minimum"
PIE_CURRENCY == "Currency not allowed"
PIE_ACTION == "Action not allowed"
PIE_EXPLANATION == "Explanation too short (minimum 20 characters)"
PIE_SLIPPAGE == "Slippage exceeds recommended limit"
PIE_ROUTES == "No allowed routes specified - will use default routing"

validateEnvelope(env, cfg, t) ==
    IF ~validatePIESchema(env)
      THEN [isValid |-> FALSE, errors |-> <<"Schema validation failed">>,
            warnings |-> << >>]
    ELSE
    LET amount == parseFloat(env.amount.value)
        maxAmount == parseFloat(cfg.maxAmount)
        minAmount == parseFloat(cfg.minAmount)
        errors ==
            PushIf(isExpired(env, t), PIE_EXPIRED)
            \o PushIf(Gt(amount, maxAmount), PIE_MAX)
            \o PushIf(Lt(amount, minAmount), PIE_MIN)
            \o PushIf(~Includes(cfg.allowedCurrencies, env.amount.currency),
                      PIE_CURRENCY)
            \o PushIf(~Includes(cfg.allowedActions, env.action), PIE_ACTION)
            \o PushIf(cfg.requireExplanation
                        /\ ExplanationLength[env.explanation] < 20,
                      PIE_EXPLANATION)
        warnings ==
            PushIf(env.constraints.maxSlippage > cfg.maxSlippageLimit, PIE_SLIPPAGE)
            \o PushIf(Len(env.allowedRoutes) = 0, PIE_ROUTES)
    IN  [isValid |-> (Len(errors) = 0), errors |-> errors, warnings |-> warnings]

\* The messages of validateEnvelope that contain 'not allowed', 'exceeds
\* maximum' or 'below minimum'.
PermanentErrors == {PIE_MAX, PIE_MIN, PIE_CURRENCY, PIE_ACTION}

canRetry(env, previousResult, t) ==
    IF isExpired(env, t) THEN FALSE
    ELSE ~(\E i \in 1..Len(previousResult.errors) :
              previousResult.errors[i] \in PermanentErrors)

\* A configuration with whole-number limits, passed in place of the default
\* (whose minAmount is '0.000001').
PieConfig ==
    [maxAmount |-> "100000", minAmount |-> "1",
     allowedCurrencies |-> <<"XRP", "USD">>,
     allowedActions |-> <<"send", "swap", "batch">>,
     requireExplanation |-> TRUE, maxSlippageLimit |-> 5]

PieCall(result) == [at |-> now, result |-> result]

pieFrame == <<gateVars, historyVars, structVars, attestorVars, repeatVars,
              planVars, readVars, learVars, settleVars, pieEnvelope>>

ValidateEnvelope ==
    /\ pieEnvelope # None
    /\ pieValidation = None
    /\ pieValidation' = PieCall(validateEnvelope(pieEnvelope, PieConfig, now))
    /\ UNCHANGED <<pieRetry, pieFrame>>

CanRetry ==
    /\ pieValidation # None
    /\ pieRetry = None
    /\ pieRetry' = PieCall(canRetry(pieEnvelope, pieValidation.result, now))
    /\ UNCHANGED <<pieValidation, pieFrame>>

-----------------------------------------------------------------------------
(* The caller's pipeline: compute -> validate -> attest, and the clock *)

PRIVATE_KEY == "priv-1"
PUBLIC_KEY == "pub-1"

pipeFrame == <<routingHalted, haltReason, pending, routeResult, calls,
               routeCalls, sideVars>>

PreValidate ==
    /\ pc = "start"
    /\ preResult' = preValidate(envelope, ledgerState, now)
    /\ pc' = "prechecked"
    /\ UNCHANGED <<now, ticks, envelope, ledgerState, sourceBalance, config,
                   computeResult, validationResult, attestResult, verifyResult,
                   pipeFrame>>

Compute ==
    /\ pc = "start"
    /\ computeResult' = compute(envelope, ledgerState, now)
    /\ pc' = IF computeResult' = Thrown THEN "noRoute" ELSE "computed"
    /\ UNCHANGED <<now, ticks, envelope, ledgerState, sourceBalance, config,
                   preResult, validationResult, attestResult, verifyResult,
                   pipeFrame>>

Validate ==
    /\ pc = "computed"
    /\ validationResult' = validate(computeResult, ledgerState, sourceBalance,
                                    config, now)
    /\ pc' = "validated"
    /\ UNCHANGED <<now, ticks, envelope, ledgerState, sourceBalance, config,
                   preResult, computeResult, attestResult, verifyResult,
                   pipeFrame>>

Attest ==
    /\ pc = "validated"
    /\ attestResult' = attest(envelope, computeResult, validationResult,
                              PRIVATE_KEY, PUBLIC_KEY, now)
    /\ pc' = IF attestResult' = Null THEN "rejected" ELSE "attested"
    /\ UNCHANGED <<now, ticks, envelope, ledgerState, sourceBalance, config,
                   preResult, computeResult, validationResult, verifyResult,
                   pipeFrame>>

VerifyAttest ==
    /\ pc = "attested"
    /\ verifyResult' = [isValid |-> verifyAttest(envelope, attestResult.attestation)]
    /\ pc' = "verified"
    /\ UNCHANGED <<now, ticks, envelope, ledgerState, sourceBalance, config,
                   preResult, computeResult, validationResult, attestResult,
                   pipeFrame>>

\* The caller calls compute once more with the envelope and ledger state of
\* its first call.
ComputeAgain ==
    /\ pc \in {"computed", "noRoute"}
    /\ secondComputeResult = None
    /\ secondComputeResult' = compute(envelope, ledgerState, now)
    /\ UNCHANGED <<gateVars, historyVars, extraVars,
                   structVars, attestorVars, secondAttestResult,
                   planVars>>

\* The caller calls attest once more with the envelope, compute result and
\* validation outcome of its first call.
AttestAgain ==
    /\ pc = "attested"
    /\ secondAttestResult = None
    /\ secondAttestResult' = attest(envelope, computeResult, validationResult,
                                    PRIVATE_KEY, PUBLIC_KEY, now)
    /\ UNCHANGED <<gateVars, historyVars, extraVars,
                   structVars, attestorVars, secondComputeResult,
                   planVars>>

\* Another envelope the caller holds: a larger payment to a destination on
\* the blocklist.
OtherEnvelope(env) ==
    [env EXCEPT !.intentId = "intent-2", !.destination = "rBlocked",
                !.amount.value = "200000"]

\* The caller calls attest with the compute result and the validation
\* outcome of its envelope, and with another envelope as first argument.
AttestOther ==
    /\ pc = "validated"
    /\ attestResult' = attest(OtherEnvelope(envelope), computeResult,
                              validationResult, PRIVATE_KEY, PUBLIC_KEY, now)
    /\ pc' = IF attestResult' = Null THEN "rejected" ELSE "attested"
    /\ UNCHANGED <<now, ticks, envelope, ledgerState, sourceBalance, config,
                   preResult, computeResult, validationResult, verifyResult,
                   pipeFrame>>

TickDeltas == {1, 299999}

Tick(d) ==
    /\ ticks < MaxTicks
    /\ ticks' = ticks + 1
    /\ now' = now + d
    /\ UNCHANGED <<routingHalted, haltReason, pc, envelope, ledgerState,
                   sourceBalance, config, preResult, computeResult,
                   validationResult, attestResult, verifyResult, pending,
                   routeResult, calls, routeCalls, sideVars>>

-----------------------------------------------------------------------------
(* Inputs *)

Expiries == {300}     \* constraints.expiry, unix seconds

Envelopes ==
    { [intentId |-> "intent-1", action |-> ca[2],
       amount |-> [value |-> a, currency |-> ca[1]],
       destination |-> d,
       constraints |-> [maxFee |-> mf, expiry |-> ex],
       allowedRoutes |-> ar, requiredProofs |-> rp] :
         a \in {"100", "200000", "abc"},
         ca \in {<<"XRP", "send">>, <<"XRP", "swap">>, <<"USD", "send">>},
         d \in {"rGood", "rBlocked"},
         mf \in {"1", "5", "abc"},
         ar \in {<<>>, <<"ilp">>, <<"multi-hop">>},
         rp \in {<<>>, <<"proof-1">>},
         ex \in Expiries }

LedgerStates ==
    { [networkFee |-> nf, lastLedgerIndex |-> li] :
         nf \in {"2", "abc"}, li \in {0, 5} }

Balances == {"50", "300", "abc"}

Configs ==
    { DEFAULT_CONFIG,
      [DEFAULT_CONFIG EXCEPT !.blockedDestinations = <<"rBlocked">>],
      [DEFAULT_CONFIG EXCEPT !.maxTransactionSize = "abc", !.minBalance = "abc"] }

RuleNows == {299999, 300000, 300999, 301000}

\* The envelopes the gate specification runs: valid and invalid, parseable or not.
GateEnvelopes ==
    { e \in Envelopes :
        /\ e.action = "send" /\ e.amount.currency = "XRP"
        /\ e.destination = "rGood" /\ e.constraints.maxFee = "5"
        /\ e.allowedRoutes = <<>> /\ e.requiredProofs = <<>> }

\* amount and balance: sufficient, insufficient, unparseable amount.
GateCases == { <<"100", "300">>, <<"100", "50">>, <<"abc", "300">> }

InitAttestor ==
    /\ requestedPolicy = None
    /\ attestor = None
    /\ attestInput = None
    /\ attestOutput = None

InitSecondCalls ==
    /\ secondComputeResult = None
    /\ secondAttestResult = None

InitSideCalls ==
    /\ controlHistory = <<>>
    /\ auditLog = <<>>
    /\ haltReads = <<>>
    /\ InitLear
    /\ InitSettlement
    /\ pieValidation = None
    /\ pieRetry = None
    /\ InitAttestor
    /\ InitSecondCalls
    /\ InitPlanner

\* No adaptation parameters are registered unless a specification says so.
InitSide ==
    /\ InitSideCalls
    /\ learParams = << >>
    /\ pieEnvelope = None

InitStruct ==
    /\ carAttestation = None
    /\ structResult = None
    /\ InitSide

InitPipe ==
    /\ ticks = 0
    /\ routingHalted = FALSE
    /\ haltReason = "null"
    /\ pc = "start"
    /\ preResult = None
    /\ computeResult = None
    /\ validationResult = None
    /\ attestResult = None
    /\ verifyResult = None
    /\ pending = None
    /\ routeResult = None
    /\ calls = <<>>
    /\ routeCalls = 0

Init ==
    /\ InitPipe
    /\ InitStruct
    /\ now = 0
    /\ envelope \in GateEnvelopes
    /\ ledgerState = [networkFee |-> "2", lastLedgerIndex |-> 5]
    /\ sourceBalance \in {"50", "300"}
    /\ <<envelope.amount.value, sourceBalance>> \in GateCases
    /\ config = DEFAULT_CONFIG

Next ==
    \/ Compute
    \/ Validate
    \/ Attest
    \/ \E cfg \in RouteConfigs, rejects \in BOOLEAN, idx \in LedgerIndexSamples :
          RouteCall(cfg, rejects, idx)
    \/ RouteReturn
    \/ \E reason \in HaltReasons :
          haltRouting(reason) /\ UNCHANGED historyVars
    \/ resumeRouting /\ UNCHANGED historyVars
    \/ \E d \in TickDeltas : Tick(d)

Spec == Init /\ [][Next]_vars

\* The gate with the operator's halt and resume calls recorded.
TestConfigs == { cfg \in RouteConfigs : cfg.ledgerType \in {"test", "xrpl"} }

InitHalt ==
    /\ InitPipe
    /\ InitStruct
    /\ now = 0
    /\ envelope \in {e \in GateEnvelopes : e.amount.value = "100"}
    /\ ledgerState = [networkFee |-> "2", lastLedgerIndex |-> 5]
    /\ sourceBalance = "300"
    /\ config = DEFAULT_CONFIG

NextHalt ==
    \/ Compute
    \/ Validate
    \/ Attest
    \/ \E cfg \in TestConfigs, rejects \in BOOLEAN, idx \in LedgerIndexSamples :
          RouteCall(cfg, rejects, idx)
    \/ RouteReturn
    \/ \E reason \in HaltReasons : OperatorHalt(reason)
    \/ OperatorResume

SpecHalt == InitHalt /\ [][NextHalt]_vars

\* The halt state read between the operator's calls and one caller's route
\* calls to the test backend.
ReadConfig ==
    [ledgerType |-> "test", nodeUrl |-> "node", timeout |-> 30000,
     retryCount |-> 0]

NextRead ==
    \/ Compute
    \/ Validate
    \/ Attest
    \/ RouteCall(ReadConfig, FALSE, 0)
    \/ RouteReturn
    \/ \E reason \in HaltReasons : OperatorHalt(reason)
    \/ OperatorResume
    \/ IsRoutingHaltedCall

SpecRead == InitHalt /\ [][NextRead]_vars

\* The learning loop: adapt, then reinforce, on every parameter list and
\* evaluation of the bounded sets.
ParamIds == {"p1", "p2"}
AdaptationParam(id, cur, lo, hi, rate) ==
    [paramId |-> id, currentValue |-> Num(cur), minBound |-> Num(lo),
     maxBound |-> Num(hi), adaptationRate |-> Num(rate)]

\* p1 in [0, 8] with rate 0.25 or 0.5, p2 in [4, 12] with rate 0.5; every
\* currentValue lies within its bounds.
ParamLists ==
    { << AdaptationParam("p1", c1, 0, 8, r1), AdaptationParam("p2", c2, 4, 12, 2) >> :
         c1 \in {0, 3, 8}, r1 \in {1, 2}, c2 \in {4, 12} }

SuggestedValues == {Num(0), Num(3), Num(8), Num(40), NaN}

ParameterAssessment(id, value, direction, confidence) ==
    [paramId |-> id, suggestedValue |-> value, suggestedDirection |-> direction,
     confidence |-> confidence]

Assessments ==
    { ParameterAssessment(id, v, "increase", 90) :
         id \in ParamIds \cup {"px"}, v \in SuggestedValues }
    \cup { ParameterAssessment("p1", Num(8), "maintain", 90),
           ParameterAssessment("p1", Num(8), "decrease", 50) }

Evaluations ==
    { [assessments |-> <<a>>] : a \in Assessments }
    \cup { [assessments |-> <<a, b>>] :
             a \in {x \in Assessments : x.paramId = "p1"},
             b \in {x \in Assessments : x.paramId \in ParamIds} }

\* Adaptations a caller can hold that adapt did not derive from its current
\* parameters: a change beyond the bounds, one for an unknown parameter, one
\* within the bounds.
GivenAdaptations ==
    { [evaluation |-> [assessments |-> << >>],
       changes |-> << [paramId |-> id, previousValue |-> Num(0), newValue |-> Num(v)] >>,
       applied |-> FALSE] :
         id \in {"p1", "px"}, v \in {8, 9} }

InitLearning ==
    /\ InitPipe
    /\ now = 0
    /\ envelope \in {e \in GateEnvelopes : e.amount.value = "100"}
    /\ ledgerState = [networkFee |-> "2", lastLedgerIndex |-> 5]
    /\ sourceBalance = "300"
    /\ config = DEFAULT_CONFIG
    /\ carAttestation = None
    /\ structResult = None
    /\ InitSideCalls
    /\ learParams \in ParamLists
    /\ pieEnvelope = None

NextLearning ==
    \/ learPc = "idle" /\ \E evaluation \in Evaluations : LearAdapt(evaluation)
    \/ LearReinforce
    \/ \E adaptation \in GivenAdaptations : LearReinforceGiven(adaptation)

SpecLearning == InitLearning /\ [][NextLearning]_vars

\* One settlement tracked through submissions, confirmations and timeout
\* checks, with the clock running.
NextSettlement ==
    \/ CreateSettlement
    \/ \E result \in SubmissionResults : RecordSubmission(result)
    \/ \E confirmations \in ConfirmationCounts : RecordConfirmation(confirmations)
    \/ CheckTimeout
    \/ \E d \in TickDeltas : Tick(d)

SpecSettlement == InitHalt /\ [][NextSettlement]_vars

\* The PIE envelope layer called shortly before, at and after the expiry.
PieEnvelopes ==
    { [intentId |-> "intent-1", action |-> "send",
       amount |-> [value |-> a, currency |-> c],
       destination |-> "rGood",
       constraints |-> [maxSlippage |-> sl, maxFee |-> mf, expiry |-> ex],
       allowedRoutes |-> << >>, requiredProofs |-> << >>,
       explanation |-> x] :
         a \in {"100", "200000", "0"}, c \in {"XRP", "EUR"},
         sl \in {1, 10}, mf \in {"1", "abc"}, ex \in Expiries,
         x \in Explanations }

PieNows == {0, 299999, 300000}

InitEnvelopeLayer ==
    /\ InitPipe
    /\ now \in PieNows
    /\ envelope \in {e \in GateEnvelopes : e.amount.value = "100"}
    /\ ledgerState = [networkFee |-> "2", lastLedgerIndex |-> 5]
    /\ sourceBalance = "300"
    /\ config = DEFAULT_CONFIG
    /\ carAttestation = None
    /\ structResult = None
    /\ InitSideCalls
    /\ learParams = << >>
    /\ pieEnvelope \in PieEnvelopes

NextEnvelopeLayer ==
    \/ ValidateEnvelope
    \/ CanRetry
    \/ \E d \in TickDeltas : Tick(d)

SpecEnvelopeLayer == InitEnvelopeLayer /\ [][NextEnvelopeLayer]_vars

\* The rule functions applied to every input of the bounded sets.
InitRules ==
    /\ InitPipe
    /\ InitStruct
    /\ now \in RuleNows
    /\ envelope \in Envelopes
    /\ ledgerState \in LedgerStates
    /\ sourceBalance \in Balances
    /\ config \in Configs

NextRules ==
    \/ PreValidate
    \/ Compute
    \/ Validate
    \/ Attest
    \/ VerifyAttest

SpecRules == InitRules /\ [][NextRules]_vars

\* isValidAttestationStructure applied to every attestation shape.
InitStructure ==
    /\ InitPipe
    /\ now = 0
    /\ envelope \in {e \in GateEnvelopes : e.amount.value = "100"}
    /\ ledgerState = [networkFee |-> "2", lastLedgerIndex |-> 5]
    /\ sourceBalance = "300"
    /\ config = DEFAULT_CONFIG
    /\ carAttestation \in CarAttestations
    /\ structResult = None
    /\ InitSide

NextStructure == CheckStructure

SpecStructure == InitStructure /\ [][NextStructure]_vars

\* The pipeline with compute and attest called a second time.
AllowLists ==
    { <<>>, <<"ilp">>, <<"multi-hop">>, <<"direct">>, <<"*">>,
      <<"xrpl-dex", "ilp">> }

RepeatEnvelopes ==
    { [intentId |-> "intent-1", action |-> ca[2],
       amount |-> [value |-> "100", currency |-> ca[1]],
       destination |-> "rGood",
       constraints |-> [maxFee |-> mf, expiry |-> ex],
       allowedRoutes |-> ar, requiredProofs |-> <<>>] :
         ca \in {<<"XRP", "send">>, <<"XRP", "swap">>, <<"USD", "send">>},
         mf \in {"1", "5", "abc"},
         ar \in AllowLists,
         ex \in Expiries }

RepeatLedgerStates ==
    { [networkFee |-> nf, lastLedgerIndex |-> 5] : nf \in {"0", "2", "abc"} }

InitRepeat ==
    /\ InitPipe
    /\ InitStruct
    /\ now = 0
    /\ envelope \in RepeatEnvelopes
    /\ ledgerState \in RepeatLedgerStates
    /\ sourceBalance = "300"
    /\ config = DEFAULT_CONFIG

NextRepeat ==
    \/ Compute
    \/ ComputeAgain
    \/ Validate
    \/ Attest
    \/ AttestOther
    \/ AttestAgain
    \/ \E d \in TickDeltas : Tick(d)

SpecRepeat == InitRepeat /\ [][NextRepeat]_vars

\* The rotation planner: buildPlan over dependency graphs and schedules.
NodeIds == {"A", "B", "C"}
Tiers == DOMAIN TIER_PRIORITY

\* Sequences without repetition over a set, up to a length.
DistinctSeqs(S, maxLen) ==
    { q \in UNION { [1..n -> S] : n \in 0..maxLen } :
        \A i, j \in 1..Len(q) : (i # j) => (q[i] # q[j]) }

DepLists == DistinctSeqs(NodeIds, MaxDeps)
NodeOrders == DistinctSeqs(NodeIds, Cardinality(NodeIds))

RotationNode(id, tier, start, deps) ==
    [id |-> id, tier |-> tier,
     windowStartUtc |-> WindowStamps[start],
     windowEndUtc |-> WindowStamps[start + 1],
     maxDowntimeMinutes |-> JsNumber(30), dependencies |-> deps]

\* Node lists that differ in their dependency graph and in their order.
GraphNodeLists ==
    { [i \in 1..Len(order) |->
          RotationNode(order[i], "HIGH", 1, depsOf[order[i]])] :
        order \in NodeOrders, depsOf \in [NodeIds -> DepLists] }

\* Node lists that differ in tiers, windows and order; no dependencies.
ScheduleNodeLists ==
    { [i \in 1..Len(order) |->
          RotationNode(order[i], tierOf[order[i]], startOf[order[i]], <<>>)] :
        order \in NodeOrders, tierOf \in [NodeIds -> Tiers],
        startOf \in [NodeIds -> {1, 2}] }

\* A node of no known tier, depending on itself.
MalformedNodeLists ==
    { << RotationNode("A", "URGENT", 1, <<"A">>) >>,
      << RotationNode("B", "LOW", 1, <<>>),
         RotationNode("A", "URGENT", 1, <<>>) >> }

RotationConstraints(maxConcurrent, epochTarget) ==
    [maxConcurrent |-> JsNumber(maxConcurrent),
     maxTotalDowntimeMinutes |-> JsNumber(60),
     epochTarget |-> JsNumber(epochTarget)]

\* The arguments of a buildPlan call: nodes and constraints.
PlanInputs ==
    (GraphNodeLists \X {RotationConstraints(2, 3)})
    \cup (ScheduleNodeLists \X {RotationConstraints(2, 3),
                                RotationConstraints(5, 8)})
    \cup (MalformedNodeLists \X {RotationConstraints(2, 3)})
    \cup ({ l \in GraphNodeLists : Len(l) < 3 } \X {RotationConstraints(0, 3)})

InitPlan ==
    /\ InitPipe
    /\ InitStruct
    /\ now = 0
    /\ envelope \in {e \in GateEnvelopes : e.amount.value = "100"}
    /\ ledgerState = [networkFee |-> "2", lastLedgerIndex |-> 5]
    /\ sourceBalance = "300"
    /\ config = DEFAULT_CONFIG

NextPlan ==
    \/ \E newAdapter \in AdapterIds : setAdapter(newAdapter)
    \/ /\ planPc = "idle"
       /\ \E input \in PlanInputs : BuildPlanCall(input[1], input[2])
    \/ BuildPlanReturn

SpecPlan == InitPlan /\ [][NextPlan]_vars

\* createAttestor, the attestor's attest and the structure check of its output.
InitRegistry ==
    /\ InitPipe
    /\ InitStruct
    /\ now \in RuleNows
    /\ envelope \in {e \in GateEnvelopes : e.amount.value = "100"}
    /\ ledgerState = [networkFee |-> "2", lastLedgerIndex |-> 5]
    /\ sourceBalance = "300"
    /\ config = DEFAULT_CONFIG

NextRegistry ==
    \/ \E cryptoPolicy \in RequestedPolicies : CreateAttestor(cryptoPolicy)
    \/ \E input \in AttestInputs, uuid \in Uuids : AttestorAttest(input, uuid)
    \/ CheckStructure

SpecRegistry == InitRegistry /\ [][NextRegistry]_vars

-----------------------------------------------------------------------------
(* Properties *)

Validated == pc \in {"validated", "attested", "rejected", "verified", "inflight", "routed"}
AttestCalled == pc \in {"attested", "rejected", "verified", "inflight", "routed"}
LastCall == calls[Len(calls)]
AttestationAge == now - attestResult.attestation.timestamp
RouteEntered == routeCalls' = routeCalls + 1

\* C1: while the halt flag is set, a route call dispatches to no settlement
\* backend and returns a failed submission, whatever the ledger type and
\* however fresh the attestation.
C1_HaltedRouteFails ==
    [][(routingHalted /\ RouteEntered) =>
          /\ calls' = calls
          /\ pc' = "routed"
          /\ ~routeResult'.submission.success]_vars

\* C2: an envelope whose validation outcome lists an error gets no
\* attestation (attest returns null) and no backend dispatch; every
\* attestation, and every attestation a backend is called with, was created
\* from the outcome validate returned, with isValid true and no errors.
C2_NoAttestationForInvalid ==
    /\ (AttestCalled /\ Len(validationResult.errors) > 0) =>
          (attestResult = Null /\ calls = <<>>)
    /\ HasAttestation =>
          /\ attestResult.validationResult = validationResult
          /\ validationResult.isValid
          /\ validationResult.errors = <<>>
          /\ attestResult.envelope = envelope
    /\ \A i \in 1..Len(calls) :
          /\ calls[i].attestResult = attestResult
          /\ calls[i].attestResult.validationResult.isValid
          /\ calls[i].attestResult.validationResult.errors = <<>>

C2_Witness ==
    /\ pc = "rejected"
    /\ envelope.amount.value = "100" /\ sourceBalance = "50"
    /\ validationResult.errors = <<ERR_BALANCE>>
    /\ attestResult = Null

\* C3: whenever no candidate route meets the envelope's max fee, validate
\* records the fee error for the route compute returned, and attest produces
\* no attestation.
NoCandidateMeetsMaxFee ==
    LET cands == allowedCandidatesOf(envelope, ledgerState, now)
    IN  /\ Len(cands) > 0
        /\ \A i \in 1..Len(cands) :
              ~Le(parseFloat(cands[i].estimatedFee),
                  parseFloat(envelope.constraints.maxFee))

C3_OverFeeRouteRejected ==
    (Validated /\ NoCandidateMeetsMaxFee) =>
        /\ Includes(validationResult.errors, ERR_FEE)
        /\ ~validationResult.isValid
        /\ (AttestCalled => attestResult = Null)

\* C4: a route call made when the attestation's age has reached MAX_AGE
\* returns the failed submission "Attestation expired" at once, calls no
\* backend and leaves the halt flag and reason as they were; a backend is
\* called only with an attestation whose age is strictly below MAX_AGE.
C4_StaleAttestationRejected ==
    [][/\ (RouteEntered /\ AttestationAge >= MAX_AGE) =>
            /\ calls' = calls
            /\ pending' = pending
            /\ pc' = "routed"
            /\ routeResult'.submission =
                   [success |-> FALSE, error |-> "Attestation expired"]
            /\ routingHalted' = routingHalted
            /\ haltReason' = haltReason
       /\ (calls' # calls) => (RouteEntered /\ AttestationAge < MAX_AGE)]_vars

C4_Witness ==
    /\ pc = "routed"
    /\ AttestationAge = MAX_AGE
    /\ routeResult.submission = [success |-> FALSE, error |-> "Attestation expired"]
    /\ calls = <<>>

\* C5: each route call invokes at most one backend function, at most once,
\* the one its config.ledgerType names, whatever config.retryCount is; a
\* route call reports success only when that single call was answered by
\* the test backend, never when the backend failed or its promise rejected.
C5_AtMostOneDispatch ==
    /\ Len(calls) <= routeCalls
    /\ \A i, j \in 1..Len(calls) : (i < j) => (calls[i].call < calls[j].call)
    /\ \A i \in 1..Len(calls) :
          /\ calls[i].ledgerType \in {"xrpl", "ilp", "test"}
          /\ calls[i].backend =
                CASE calls[i].ledgerType = "xrpl" -> "submitToXRPL"
                  [] calls[i].ledgerType = "ilp"  -> "submitToILP"
                  [] OTHER                        -> "submitToTestnet"
    /\ (pc = "inflight") => (calls # <<>> /\ LastCall.call = routeCalls)
    /\ (pc = "routed" /\ calls # <<>> /\ LastCall.call = routeCalls
           /\ (LastCall.outcome = "rejected" \/ LastCall.backend # "submitToTestnet"))
          => ~routeResult.submission.success
    /\ (pc = "routed" /\ routeResult.submission.success) =>
          (calls # <<>> /\ LastCall.call = routeCalls)

C5_Witness ==
    /\ pc = "routed"
    /\ routeCalls > 1
    /\ Len(calls) = routeCalls
    /\ LastCall.backend = "submitToTestnet"
    /\ LastCall.outcome = "rejected"
    /\ ~routeResult.submission.success

\* C6: when the amount, the source balance, the route fee, the max fee or a
\* configured limit is not a parseable number, validate does not return
\* isValid = true.
IsNumeral(str) == str \in DOMAIN DecimalValue
SomeInputUnparseable ==
    \/ ~IsNumeral(envelope.amount.value)
    \/ ~IsNumeral(sourceBalance)
    \/ ~IsNumeral(computeResult.selectedRoute.estimatedFee)
    \/ ~IsNumeral(envelope.constraints.maxFee)
    \/ ~IsNumeral(config.maxTransactionSize)
    \/ ~IsNumeral(config.minBalance)

C6_FailsClosed ==
    (Validated /\ SomeInputUnparseable) => ~validationResult.isValid

\* C7: the error list of validate holds exactly one entry per violated error
\* rule (transaction ceiling, balance, blocklist, max fee, expiry), in rule
\* order, whatever the other rules did; isValid is true iff no error rule is
\* violated, whatever the warnings.
NumOf(str) == DecimalValue[str]
RuleOrder == <<ERR_AMOUNT, ERR_BALANCE, ERR_BLOCKED, ERR_FEE, ERR_EXPIRED>>
ViolatedRules ==
    LET feeStr == computeResult.selectedRoute.estimatedFee
    IN  { r \in {ERR_AMOUNT} :
            /\ IsNumeral(envelope.amount.value) /\ IsNumeral(config.maxTransactionSize)
            /\ NumOf(envelope.amount.value) > NumOf(config.maxTransactionSize) }
        \cup
        { r \in {ERR_BALANCE} :
            /\ IsNumeral(envelope.amount.value) /\ IsNumeral(sourceBalance)
            /\ IsNumeral(feeStr) /\ IsNumeral(config.minBalance)
            /\ NumOf(sourceBalance) <
                 NumOf(envelope.amount.value) + NumOf(feeStr) + NumOf(config.minBalance) }
        \cup
        { r \in {ERR_BLOCKED} :
            \E i \in DOMAIN config.blockedDestinations :
               config.blockedDestinations[i] = envelope.destination }
        \cup
        { r \in {ERR_FEE} :
            /\ IsNumeral(feeStr) /\ IsNumeral(envelope.constraints.maxFee)
            /\ NumOf(feeStr) > NumOf(envelope.constraints.maxFee) }
        \cup
        { r \in {ERR_EXPIRED} : now >= envelope.constraints.expiry * MS_PER_SEC }

RuleViolated(r) == r \in ViolatedRules

C8_ExpiryInclusive ==
    /\ Validated =>
          (Includes(validationResult.errors, ERR_EXPIRED)
              <=> now >= envelope.constraints.expiry * MS_PER_SEC)
    /\ (pc = "prechecked") =>
          /\ (now >= envelope.constraints.expiry * MS_PER_SEC) =>
                preResult = [canProceed |-> FALSE, reason |-> "Envelope already expired"]
          /\ preResult.canProceed =>
                now < envelope.constraints.expiry * MS_PER_SEC

C8_Witness ==
    /\ pc = "validated"
    /\ now \div MS_PER_SEC = envelope.constraints.expiry
    /\ now > envelope.constraints.expiry * MS_PER_SEC
    /\ validationResult.errors = <<ERR_EXPIRED>>

\* C9: isValidAttestationStructure returns false for every attestation of a
\* hybrid policy that lacks the classical or the post-quantum signature, and
\* for every attestation of a PQC-only policy that lacks the post-quantum
\* signature.
C9_HybridNeedsBothSignatures ==
    (structResult # None) =>
        /\ (/\ carAttestation.cryptoPolicy \in HybridPolicyIds
            /\ (carAttestation.classicalSig = Undefined
                   \/ carAttestation.pqcSig = Undefined))
              => ~structResult.valid
        /\ (/\ carAttestation.cryptoPolicy \in PqcOnlyPolicyIds
            /\ carAttestation.pqcSig = Undefined)
              => ~structResult.valid

C9_Witness ==
    /\ structResult = [valid |-> FALSE]
    /\ carAttestation.cryptoPolicy = "HYBRID_ED25519_PLUS_DILITHIUM"
    /\ carAttestation.attestationId # "" /\ carAttestation.suite # ""
    /\ carAttestation.keyEpoch.type = "number"
    /\ carAttestation.createdAt.type = "number"
    /\ carAttestation.envelopeHashHex # ""
    /\ carAttestation.classicalSig # Undefined
    /\ carAttestation.pqcSig = Undefined

\* C10: verifyAttest returns true for the attestation attest has just
\* produced, checked against the same, unchanged envelope.
C10_FreshAttestationVerifies ==
    (pc = "verified") => verifyResult.isValid

\* C11: for each hybrid policy, the attestor createAttestor returns produces
\* an attestation tagged with that policy and with the key epoch of the
\* input, carrying a classical signature of the policy's algorithm and a
\* populated post-quantum signature; isValidAttestationStructure accepts it.
ClassicalAlgOf ==
    ("HYBRID_ED25519_PLUS_DILITHIUM" :> "ed25519") @@
    ("HYBRID_ECDSA_SECP256K1_PLUS_DILITHIUM" :> "secp256k1")

C11_HybridAttestorOutput ==
    /\ (attestor # None /\ requestedPolicy \in HybridPolicyIds) =>
          /\ attestor.tag = "attestor"
          /\ Includes(attestor.supports, requestedPolicy)
    /\ (attestOutput # None) =>
          /\ requestedPolicy \in HybridPolicyIds
          /\ carAttestation = attestOutput.attestation
          /\ carAttestation.cryptoPolicy = requestedPolicy
          /\ carAttestation.keyEpoch = attestInput.keyEpoch
          /\ carAttestation.classicalSig # Undefined
          /\ carAttestation.classicalSig.alg = ClassicalAlgOf[requestedPolicy]
          /\ carAttestation.classicalSig.signatureHex # ""
          /\ carAttestation.pqcSig # Undefined
          /\ carAttestation.pqcSig.signatureHex # ""
          /\ carAttestation.pqcSig.publicKeyHex # ""
    /\ (attestOutput # None /\ structResult # None) => structResult.valid

C11_Witness ==
    /\ attestOutput # None
    /\ requestedPolicy = "HYBRID_ED25519_PLUS_DILITHIUM"
    /\ attestInput.keyEpoch = JsNumber(7)
    /\ carAttestation.classicalSig.alg = "ed25519"
    /\ structResult = [valid |-> TRUE]

\* C12: createAttestor yields, for each of the four enumerated policy ids,
\* an attestor whose supports list contains that id, and for every other id
\* throws without yielding an attestor.
C12_ClosedMapping ==
    (attestor # None) =>
        IF requestedPolicy \in CryptoPolicyIds
          THEN /\ attestor.tag = "attestor"
               /\ Includes(attestor.supports, requestedPolicy)
          ELSE attestor.tag = "thrown"

DependsOn(nodes, id) ==
    UNION { { nodes[i].dependencies[j] : j \in 1..Len(nodes[i].dependencies) } :
              i \in { i \in 1..Len(nodes) : nodes[i].id = id } }

RECURSIVE ReachableWithin(_, _, _)
ReachableWithin(nodes, from, k) ==
    IF k = 0 THEN {}
    ELSE LET direct == UNION { DependsOn(nodes, id) : id \in from }
         IN  direct \cup ReachableWithin(nodes, direct, k - 1)

HasDirectedCycle(nodes) ==
    \E i \in 1..Len(nodes) :
       nodes[i].id \in ReachableWithin(nodes, {nodes[i].id}, Len(nodes))

IsThrown(x) == "tag" \in DOMAIN x /\ x.tag = "thrown"
IsPlan(x) == "items" \in DOMAIN x
IsCycleError(x) ==
    IsThrown(x) /\ x.message = "Dependency cycle detected involving node"
WellFormedPlanInput ==
    /\ \A i \in 1..Len(planNodes) : planNodes[i].tier \in Tiers
    /\ planConstraints.maxConcurrent.v >= 1

NodeOf(id) == planNodes[CHOOSE i \in 1..Len(planNodes) : planNodes[i].id = id]
TierRank ==
    ("CRITICAL" :> 1) @@ ("HIGH" :> 2) @@ ("MEDIUM" :> 3) @@ ("LOW" :> 4)
StartsNoLater(a, b) ==
    \E i, j \in 1..Len(WindowStamps) :
       /\ WindowStamps[i] = a /\ WindowStamps[j] = b /\ i <= j

C20_GreedyPlanShape ==
    (planPc = "done" /\ IsPlan(planResult)) =>
        LET items == planResult.items
        IN  /\ Len(items) = Len(planNodes)
            /\ \A i \in 1..Len(planNodes) :
                  Cardinality({ k \in 1..Len(items) :
                                  items[k].id = planNodes[i].id }) = 1
            /\ \A i, j \in 1..Len(items) : (i < j) =>
                  \/ TierRank[NodeOf(items[i].id).tier]
                        < TierRank[NodeOf(items[j].id).tier]
                  \/ /\ NodeOf(items[i].id).tier = NodeOf(items[j].id).tier
                     /\ StartsNoLater(NodeOf(items[i].id).windowStartUtc,
                                      NodeOf(items[j].id).windowStartUtc)
            /\ \A k \in 1..Len(items) :
                  /\ items[k].scheduledStartUtc = NodeOf(items[k].id).windowStartUtc
                  /\ items[k].scheduledEndUtc = NodeOf(items[k].id).windowEndUtc
                  /\ items[k].epoch = planConstraints.epochTarget
            /\ planResult.epoch = planConstraints.epochTarget
            /\ planResult.score = Len(items)

C20_Witness ==
    /\ planPc = "done"
    /\ IsPlan(planResult)
    /\ solverCalls[1].adapter = "GREEDY_FALLBACK_V1"
    /\ Len(planNodes) = 3
    /\ planNodes[1].id = "A" /\ planNodes[1].tier = "LOW"
    /\ planNodes[2].id = "B" /\ planNodes[2].tier = "CRITICAL"
    /\ planNodes[2].windowStartUtc = WindowStamps[2]
    /\ planNodes[3].id = "C" /\ planNodes[3].tier = "CRITICAL"
    /\ planNodes[3].windowStartUtc = WindowStamps[1]
    /\ planResult.items[1].id = "C"
    /\ planResult.items[2].id = "B"
    /\ planResult.items[3].id = "A"
    /\ planResult.epoch = JsNumber(8)

\* C15: after a resumeRouting call, however many haltRouting calls came
\* before it, isRoutingHalted reports halted = false with reason null, and a
\* route call with a fresh attestation that the test backend answers returns
\* success, as it did before the halt.
LastControl == controlHistory[Len(controlHistory)]
Resumed == controlHistory # <<>> /\ LastControl.call = "resumeRouting"
HaltsBefore ==
    Cardinality({ i \in 1..Len(controlHistory) :
                    controlHistory[i].call = "haltRouting" })

C15_ResumeReenablesRouting ==
    [][/\ Resumed' => isRoutingHalted' = [halted |-> FALSE, reason |-> "null"]
       /\ (Resumed /\ RouteEntered /\ AttestationAge < MAX_AGE) =>
             \/ /\ calls' # calls
                /\ pc' = "inflight"
                /\ (calls'[Len(calls')].backend = "submitToTestnet"
                      /\ calls'[Len(calls')].outcome = "answered")
                     => pending'.submission.success
             \/ routeResult'.submission.error = "Unknown ledger type"
       /\ (pc = "inflight" /\ pc' = "routed") =>
             routeResult'.submission.success = pending.submission.success]_vars

C15_Witness ==
    /\ Resumed
    /\ HaltsBefore > 1
    /\ ~routingHalted /\ haltReason = "null"
    /\ pc = "routed"
    /\ routeCalls = 2 /\ Len(calls) = 2
    /\ \A i \in 1..2 : calls[i].backend = "submitToTestnet"
                          /\ calls[i].outcome = "answered"
    /\ routeResult.submission.success

\* C16: in every reachable state, with halt and resume calls interleaved
\* with route calls in flight, halted is true exactly when the reason is
\* non-null, and isRoutingHalted returns the flag and the reason that one
\* and the same call wrote: the last halt or resume call, or the initial
\* pair when there was none.
C16_HaltStateConsistent ==
    /\ isRoutingHalted.halted <=> (isRoutingHalted.reason # "null")
    /\ (controlHistory = <<>>) =>
          isRoutingHalted = [halted |-> FALSE, reason |-> "null"]
    /\ (controlHistory # <<>>) =>
          isRoutingHalted =
             [halted |-> (LastControl.call = "haltRouting"),
              reason |-> LastControl.reason]

C16_Witness ==
    /\ pc = "inflight"
    /\ Len(controlHistory) = 3
    /\ controlHistory[1].call = "haltRouting"
    /\ controlHistory[2].call = "resumeRouting"
    /\ controlHistory[3] = ControlCall("haltRouting", "maintenance")
    /\ controlHistory[1].reason = "incident"
    /\ isRoutingHalted = [halted |-> TRUE, reason |-> "maintenance"]

\* The route types compute offers for an envelope, and the candidates that
\* survive its allow-list, stated from the envelope alone.
OfferedTypes ==
    (IF envelope.amount.currency = "XRP" THEN {"direct"} ELSE {})
    \cup (IF envelope.action = "swap" \/ envelope.amount.currency # "XRP"
            THEN {"xrpl-dex"} ELSE {})
    \cup {"ilp"}
AllowListed ==
    { ty \in OfferedTypes :
        \/ envelope.allowedRoutes = <<>>
        \/ \E i \in 1..Len(envelope.allowedRoutes) :
              envelope.allowedRoutes[i] \in {ty, "*"} }
Computed == computeResult # None /\ computeResult # Thrown
AllowedAtCompute ==
    allowedCandidatesOf(envelope, ledgerState, computeResult.timestamp)

\* a comes before b, or is tied with it, under: higher confidence, then
\* lower fee, then lower latency.
NoWorseThan(a, b) ==
    \/ a.confidence > b.confidence
    \/ /\ a.confidence = b.confidence
       /\ \/ ~IsNumeral(a.estimatedFee) \/ ~IsNumeral(b.estimatedFee)
          \/ NumOf(a.estimatedFee) < NumOf(b.estimatedFee)
          \/ /\ NumOf(a.estimatedFee) = NumOf(b.estimatedFee)
             /\ a.estimatedTime <= b.estimatedTime

C18_NoRouteIffNoneAllowed ==
    (computeResult # None) =>
        /\ (computeResult = Thrown) <=> (AllowListed = {})
        /\ (envelope.allowedRoutes = <<>>) =>
              /\ Computed
              /\ computeResult.selectedRoute.type \in OfferedTypes
        /\ Computed => computeResult.selectedRoute.type \in AllowListed

C18_Witness ==
    /\ computeResult = Thrown
    /\ pc = "noRoute"
    /\ envelope.amount.currency = "USD"
    /\ envelope.allowedRoutes = <<"direct">>

\* C19: two compute calls with the same envelope and ledger state, made at
\* any two times, return the same selected route (type, hops, fee, latency,
\* confidence) and the same alternative routes in the same order, or both
\* throw.
RouteShape(r) ==
    [type |-> r.type, path |-> r.path, estimatedFee |-> r.estimatedFee,
     estimatedTime |-> r.estimatedTime, confidence |-> r.confidence]
ShapesOf(routes) == [i \in 1..Len(routes) |-> RouteShape(routes[i])]

C19_ComputeDeterministic ==
    (secondComputeResult # None) =>
        IF computeResult = Thrown \/ secondComputeResult = Thrown
          THEN computeResult = secondComputeResult
          ELSE /\ RouteShape(secondComputeResult.selectedRoute)
                     = RouteShape(computeResult.selectedRoute)
               /\ ShapesOf(secondComputeResult.alternativeRoutes)
                     = ShapesOf(computeResult.alternativeRoutes)
               /\ secondComputeResult.envelope = computeResult.envelope

C19_Witness ==
    /\ Computed
    /\ secondComputeResult # None
    /\ secondComputeResult.timestamp > computeResult.timestamp
    /\ secondComputeResult.selectedRoute.routeId
          # computeResult.selectedRoute.routeId
    /\ Len(secondComputeResult.alternativeRoutes) = 2

\* C21: validate blocks an envelope that names required proofs, none of which
\* has been checked: the result is not valid, and the only warning validate
\* ever issues without an error is the one about route confidence.
C21_UncheckedProofsBlock ==
    Validated =>
        /\ (Len(envelope.requiredProofs) > 0) => ~validationResult.isValid
        /\ \A i \in DOMAIN validationResult.warnings :
              validationResult.warnings[i] = WARN_CONFIDENCE

\* C22: isRoutingHalted writes neither the flag nor the reason: the pair a
\* call returned is still the state as long as no haltRouting or
\* resumeRouting call has been made since, and any two calls with no such
\* call between them returned the same pair.
C22_ReadIsPure ==
    \A i \in DOMAIN haltReads :
        /\ (haltReads[i].at = Len(controlHistory)) =>
              haltReads[i].result = isRoutingHalted
        /\ \A j \in DOMAIN haltReads :
              (haltReads[j].at = haltReads[i].at) =>
                  haltReads[j].result = haltReads[i].result

C22_Witness ==
    /\ Len(haltReads) = 2
    /\ haltReads[1].at = 1 /\ haltReads[2].at = 1
    /\ haltReads[2].result = [halted |-> TRUE, reason |-> "incident"]
    /\ pc = "inflight"

\* C23: each haltRouting call, each resumeRouting call and each route call,
\* the one rejected for a stale attestation included, adds exactly one entry
\* to the audit log, and the entry names the call.
ControlCallMade == Len(controlHistory') = Len(controlHistory) + 1
RouteCallEnded ==
    /\ pc' = "routed"
    /\ (pc = "inflight" \/ routeCalls' = routeCalls + 1)
OneAuditOf(action) ==
    /\ Len(auditLog') = Len(auditLog) + 1
    /\ auditLog'[Len(auditLog')].action = action

C23_EveryTransitionAudited ==
    [][/\ ControlCallMade => OneAuditOf(controlHistory'[Len(controlHistory')].call)
       /\ RouteCallEnded => OneAuditOf("route")
       /\ ~(ControlCallMade \/ RouteCallEnded) => auditLog' = auditLog]_vars

\* C24: from parameters within their bounds, after every adapt followed by
\* reinforce each parameter's currentValue is within [minBound, maxBound] and
\* differs from its value before the reinforce by at most
\* (maxBound - minBound) * adaptationRate; a reinforce that rejects returns
\* the parameters it was given.
WithinBounds(param) ==
    /\ ~param.currentValue.nan
    /\ param.minBound.v <= param.currentValue.v
    /\ param.currentValue.v <= param.maxBound.v

MovedAtMostMaxDelta(before, after) ==
    /\ ~after.currentValue.nan
    /\ (after.currentValue.v - before.currentValue.v) * RATE_SCALE
          <= (before.maxBound.v - before.minBound.v) * before.adaptationRate.v
    /\ (before.currentValue.v - after.currentValue.v) * RATE_SCALE
          <= (before.maxBound.v - before.minBound.v) * before.adaptationRate.v

C24_BoundedAdaptation ==
    /\ \A i \in 1..Len(learParams) : WithinBounds(learParams[i])
    /\ (learResult # None /\ learBefore.derived) =>
          \A i \in 1..Len(learParams) :
              MovedAtMostMaxDelta(learBefore.params[i], learParams[i])
    /\ (learResult # None /\ ~learResult.success) =>
          learParams = learBefore.params

\* C25: in every AttestResult attest produced, envelope is the envelope of
\* its computeResult, the one the validation outcome was computed for.
C25_AttestsValidatedEnvelope ==
    (attestResult # None /\ attestResult # Null) =>
        /\ attestResult.envelope = attestResult.computeResult.envelope
        /\ attestResult.envelope = envelope

\* C26: once the current time has reached the envelope's expiry, a route
\* call makes no backend call, whatever the age of the attestation.
C26_NoDispatchAfterExpiry ==
    [][(nowSec(now) >= envelope.constraints.expiry) => calls' = calls]_vars

\* C27: in every plan buildPlan returns, the item of each dependency of a
\* node that is in the plan comes before the item of the node.
C27_DependenciesRotateFirst ==
    (planPc = "done" /\ IsPlan(planResult)) =>
        \A i, j \in 1..Len(planResult.items) :
            (planResult.items[j].id \in DependsOn(planNodes, planResult.items[i].id))
                => j < i

\* C28: in every plan buildPlan returns, at no instant do more than
\* constraints.maxConcurrent items have a scheduled window that covers the
\* instant.  The number of windows that cover an instant is largest at the
\* start of some window; a window covers its start and not its end.
CoversStartOf(item, other) ==
    /\ StampRank(item.scheduledStartUtc) <= StampRank(other.scheduledStartUtc)
    /\ StampRank(other.scheduledStartUtc) < StampRank(item.scheduledEndUtc)

C28_MaxConcurrentRespected ==
    (planPc = "done" /\ IsPlan(planResult)) =>
        \A k \in 1..Len(planResult.items) :
            Cardinality({ m \in 1..Len(planResult.items) :
                            CoversStartOf(planResult.items[m], planResult.items[k]) })
               <= planConstraints.maxConcurrent.v

\* C29: once isFinal(settlement) is true (finalized, failed or timeout), no
\* recordSubmission, recordConfirmation or checkTimeout call yields a
\* settlement with another status.
C29_FinalStatusIsTerminal ==
    [][(settlement # None /\ isFinal(settlement)) =>
          settlement'.status = settlement.status]_vars

\* C30: isExpired applies the gate's inclusive boundary: once the time has
\* reached constraints.expiry, the instant of the expiry included,
\* validateEnvelope records the expiry error on a schema-valid envelope and
\* canRetry returns false; before it, no expiry error is recorded.
ReachedExpiry(t) == t >= pieEnvelope.constraints.expiry * MS_PER_SEC

C30_EnvelopeExpiryInclusive ==
    /\ (pieValidation # None /\ validatePIESchema(pieEnvelope)) =>
          (Includes(pieValidation.result.errors, PIE_EXPIRED)
              <=> ReachedExpiry(pieValidation.at))
    /\ (pieRetry # None /\ ReachedExpiry(pieRetry.at)) => ~pieRetry.result

====
